---------------------------- MODULE Spec2Model ----------------------------
(***************************************************************************)
(* A model of the labeling and backtesting core of PersonalML:             *)
(*   - the backtest simulator        (src/backtest.py, run_backtest)       *)
(*   - the horizon return labeler    (src/labeler.py, main)                *)
(*   - the triple-barrier labeler    (src/labeler_barrier.py, main)        *)
(* and of three functions exercised on their own:                          *)
(*   - classify_path / classify_path_short   (src/labeler_barrier.py)      *)
(*   - summarize_returns                     (src/backtest.py)             *)
(*   - compute_context_features              (src/build_dataset.py)        *)
(* The tools are separate command-line programs.  The variable `program`   *)
(* says which of them a behaviour runs; the variables of the others stay   *)
(* at their idle values.                                                   *)
(*                                                                         *)
(* Representation choices                                                  *)
(*   None is <<>> and a present value v is <<v>> (Python's Optional).      *)
(*   A non-finite float (NaN, inf) is folded into None wherever the code   *)
(*   tests it with is_finite / safe_float, which treat both alike.         *)
(*   Percent returns are integers in units of 0.01 % (one basis point),    *)
(*   so that extra_cost_bps / 100.0 percent is extra_cost_bps units.       *)
(*   Prices are integers; barrier thresholds are compared in exact         *)
(*   arithmetic after multiplying both sides by 10000.                     *)
(***************************************************************************)
EXTENDS Integers, Sequences, FiniteSets, TLC

VARIABLES
    program,        \* which tool this behaviour runs
    \* ---- backtest.py: run_backtest
    bt_cfg,         \* long_threshold, short_threshold, extra_cost_bps, short_enabled
    last_exit,      \* Dict[str, int]: the per-symbol watermark
    trade_returns,  \* List[float]
    trades,         \* List[dict]
    bt_outcome,     \* where the last row left the loop body
    bt_action,      \* the local `action` of the last row
    bt_rows,        \* number of rows consumed from df.itertuples()
    bt_solo,        \* per symbol: run_backtest on the rows of that symbol alone
    \* ---- labeler.py: main
    lb_cfg,         \* the parsed command line
    lb_input,       \* the snapshot records of the data directory, in reading order
    lb_tmp,         \* the per-symbol temp files: symbol -> rows in arrival order
    lb_todo,        \* symbol_files not yet labeled, in sorted order
    lb_out,         \* the payloads written to the output file
    lb_pc,          \* position in main
    \* ---- labeler_barrier.py: main
    br_cfg,         \* the parsed command line
    br_snaps,       \* the snapshot records of --snapshots-dir, in reading order
    br_events,      \* the raw events of --events-dir, in reading order
    br_snap_tmp,    \* the *_snap.jsonl temp files: symbol -> rows in arrival order
    br_evt_tmp,     \* the *_evt.jsonl temp files: symbol -> rows in arrival order
    br_todo,        \* snap_files not yet visited, in sorted order
    br_out,         \* the payloads written to the output file
    br_missing,     \* missing_events
    br_pc,          \* position in main
    \* ---- labeler_barrier.py: classify_path / classify_path_short, called alone
    cp_rows,        \* the caller's tick list
    cp_args,        \* start_time, horizon_ms, entry_price, tp_bps, sl_bps
    cp_results,     \* what the calls made so far returned, with their side
    \* ---- backtest.py: summarize_returns
    dd_returns,     \* the returns array
    dd_summary,     \* the summary returned, None before the call
    \* ---- build_dataset.py: compute_context_features
    cx_index,       \* context_index: symbol -> sorted (time, price) pairs
    cx_args,        \* entry_time, context_windows_ms, max_context_lag_ms
    cx_features     \* the dict returned, None before the call

bt_vars == <<bt_cfg, last_exit, trade_returns, trades, bt_outcome, bt_action, bt_rows,
             bt_solo>>

lb_vars == <<lb_cfg, lb_input, lb_tmp, lb_todo, lb_out, lb_pc>>

br_vars == <<br_cfg, br_snaps, br_events, br_snap_tmp, br_evt_tmp, br_todo, br_out,
             br_missing, br_pc>>

cp_vars == <<cp_rows, cp_args, cp_results>>

dd_vars == <<dd_returns, dd_summary>>

cx_vars == <<cx_index, cx_args, cx_features>>

\* the state of the functions that are also exercised on their own
fn_vars == <<cp_vars, dd_vars, cx_vars>>

vars == <<program, bt_vars, lb_vars, br_vars, fn_vars>>

None == <<>>
Some(v) == <<v>>
EmptyMap == [k \in {} |-> 0]
Put(map, key, value) == [k \in DOMAIN map \cup {key} |-> IF k = key THEN value ELSE map[k]]
Last(seq) == seq[Len(seq)]

(***************************************************************************)
(*                         backtest.py                                     *)
(***************************************************************************)

\* Bounds of the backtest model.
MaxRows == 2
MaxEntryTime == 2

BtSymbols == {"A", "B"}
NoSymbol == ""
NoAction == "none"

BtOptInt(S) == {None} \cup {Some(v) : v \in S}

\* The (long, short, base) return columns a row may carry, in 0.01 % units.
BtReturnColumns ==
    { <<Some(30), Some(-20), Some(10)>>, <<None, None, Some(10)>>, <<None, None, None>> }

BtRows ==
    { [symbol |-> sy, entryTime |-> et, horizonMs |-> hz, prediction |-> pr,
       longReturnPct |-> rc[1], shortReturnPct |-> rc[2], returnPct |-> rc[3]] :
        sy \in BtSymbols \cup {NoSymbol},
        et \in BtOptInt(0..MaxEntryTime),
        hz \in BtOptInt({0, 1, 2}),
        pr \in BtOptInt({0, 1}),
        rc \in BtReturnColumns }

BtConfigs ==
    [long_threshold : {0, 1}, short_threshold : {0, 1},
     extra_cost_bps : {5}, short_enabled : BOOLEAN]

is_finite(value) == value # None

\* the short fallback is the base return, not its negation
SelectReturnShortNotNegated(row, action) ==
    LET base == row.returnPct IN
    IF action = "long"
    THEN LET candidate == row.longReturnPct IN
         IF is_finite(candidate) THEN candidate
         ELSE IF is_finite(base) THEN base ELSE None
    ELSE LET candidate == row.shortReturnPct IN
         IF is_finite(candidate) THEN candidate
         ELSE IF is_finite(base) THEN base ELSE None

\* lines 66-76
select_return(row, action) ==
    LET base == row.returnPct IN
    IF action = "long"
    THEN LET candidate == row.longReturnPct IN
         IF is_finite(candidate) THEN candidate
         ELSE IF is_finite(base) THEN base ELSE None
    ELSE LET candidate == row.shortReturnPct IN
         IF is_finite(candidate) THEN candidate
         ELSE IF is_finite(base) THEN Some(-base[1]) ELSE None

\* the extra cost is never charged
CostPctIgnored(extra_cost_bps) == 0

\* line 86: extra_cost_bps / 100 percent, which is extra_cost_bps units of 0.01 %
cost_pct(extra_cost_bps) == extra_cost_bps

\* line 96: the row carries everything the loop body needs
RowPresent(row) ==
    /\ row.symbol # NoSymbol
    /\ row.entryTime # None
    /\ row.horizonMs # None
    /\ is_finite(row.prediction)

InPositionInverted(watermark, symbol, entry_time) ==
    symbol \in DOMAIN watermark /\ entry_time > watermark[symbol]

InPositionInclusive(watermark, symbol, entry_time) ==
    symbol \in DOMAIN watermark /\ entry_time <= watermark[symbol]

\* one watermark for all symbols
InPositionAnySymbol(watermark, symbol, entry_time) ==
    \E other \in DOMAIN watermark : entry_time < watermark[other]

\* the watermark is not looked at
InPositionNever(watermark, symbol, entry_time) == FALSE

\* line 102
InPosition(watermark, symbol, entry_time) ==
    symbol \in DOMAIN watermark /\ entry_time < watermark[symbol]

ChooseActionShortFirst(pred_val, long_threshold, short_threshold, short_enabled) ==
    IF short_enabled /\ pred_val <= -short_threshold THEN "short"
    ELSE IF pred_val >= long_threshold THEN "long"
    ELSE NoAction

\* lines 105-110
ChooseAction(pred_val, long_threshold, short_threshold, short_enabled) ==
    IF pred_val >= long_threshold THEN "long"
    ELSE IF short_enabled /\ pred_val <= -short_threshold THEN "short"
    ELSE NoAction

\* One pass through the body of `for row in df.itertuples(index=False)`:
\* from the given last_exit, trade_returns and trades, their values after the
\* row, with the exit taken (`continue` at which test, or the append) and the
\* local action.
RowStep(row, cfg, watermark, returns, recorded) ==
    LET skip(why, act) ==
            [last_exit |-> watermark, trade_returns |-> returns,
             trades |-> recorded, outcome |-> why, action |-> act]
    IN
    IF ~RowPresent(row) THEN skip("skip_invalid", NoAction)
    ELSE
    LET symbol == row.symbol
        entry_time == row.entryTime[1]
        horizon_ms == row.horizonMs[1]
    IN
    IF horizon_ms <= 0 THEN skip("skip_horizon", NoAction)
    ELSE IF InPosition(watermark, symbol, entry_time) THEN skip("skip_position", NoAction)
    ELSE
    LET pred_val == row.prediction[1]
        action == ChooseAction(pred_val, cfg.long_threshold,
                               cfg.short_threshold, cfg.short_enabled)
    IN
    IF action = NoAction THEN skip("skip_noaction", NoAction)
    ELSE
    LET selected == select_return(row, action) IN
    IF selected = None THEN skip("skip_noreturn", action)
    ELSE
    LET realized == selected[1] - cost_pct(cfg.extra_cost_bps)
        exit_time == entry_time + horizon_ms
    IN
    [last_exit |-> Put(watermark, symbol, exit_time),
     trade_returns |-> Append(returns, realized),
     trades |-> Append(recorded,
                  [symbol |-> symbol, entryTime |-> entry_time, exitTime |-> exit_time,
                   action |-> action, prediction |-> pred_val, realizedPct |-> realized]),
     outcome |-> "trade",
     action |-> action]

\* the loop body on the state of the run
RowResult(row) == RowStep(row, bt_cfg, last_exit, trade_returns, trades)

\* a run that has seen no row yet
BtFresh == [last_exit |-> EmptyMap, trade_returns |-> <<>>, trades |-> <<>>]

BtIdle ==
    /\ bt_cfg = None
    /\ last_exit = EmptyMap
    /\ trade_returns = <<>>
    /\ trades = <<>>
    /\ bt_outcome = "idle"
    /\ bt_action = NoAction
    /\ bt_rows = 0
    /\ bt_solo = EmptyMap

\* run_backtest, lines 86-89, for any thresholds the caller passes
BtStart ==
    /\ bt_cfg \in BtConfigs
    /\ last_exit = EmptyMap
    /\ trade_returns = <<>>
    /\ trades = <<>>
    /\ bt_outcome = "start"
    /\ bt_action = NoAction
    /\ bt_rows = 0
    /\ bt_solo = [sym \in BtSymbols |-> BtFresh]

\* the same loop body in the run that is given the rows of one symbol only
SoloStep(solo, row) ==
    IF row.symbol \notin DOMAIN solo THEN solo
    ELSE LET own == solo[row.symbol]
             res == RowStep(row, bt_cfg, own.last_exit, own.trade_returns, own.trades)
         IN [solo EXCEPT ![row.symbol] =
                [last_exit |-> res.last_exit, trade_returns |-> res.trade_returns,
                 trades |-> res.trades]]

\* the loop body of run_backtest on the next row of the frame; the row also
\* goes to the run on its symbol's rows alone
ProcessRow ==
    /\ program = "backtest"
    /\ bt_rows < MaxRows
    /\ \E row \in BtRows :
         LET res == RowResult(row) IN
         /\ last_exit' = res.last_exit
         /\ trade_returns' = res.trade_returns
         /\ trades' = res.trades
         /\ bt_outcome' = res.outcome
         /\ bt_action' = res.action
         /\ bt_solo' = SoloStep(bt_solo, row)
    /\ bt_rows' = bt_rows + 1
    /\ UNCHANGED <<program, fn_vars, bt_cfg, lb_vars, br_vars>>

BtNext == ProcessRow

(***************************************************************************)
(*                          labeler.py                                     *)
(***************************************************************************)

\* Bound of the labeler model: snapshot records in the data directory.
MaxObs == 3

MsPerMin == 60 * 1000

LbSymbols == {"X", "Y"}

\* Observation times: an entry, the one-minute target, and targets lagging it
\* by exactly 10 % of the horizon and by one millisecond more.
LbTimes == {0, MsPerMin, MsPerMin + 6000, MsPerMin + 6001}

LbPrices == {0, 100}

\* What a line of a snapshot file can be (lines 29-49):
\*   "snapshot"    a record of type snapshot with symbol, integer time, price
\*   "unparsable"  json.loads raises
\*   "nonrecord"   json.loads returns a number, string, list or null
\*   "badtime"     a snapshot record whose time is not an integer ("abc")
\*   "badprice"    a snapshot record whose price is not a number
LbLineKinds == {"snapshot", "unparsable", "nonrecord", "badtime", "badprice"}

\* Snapshot records without best bid/ask and funding rate in their features.
\* Funding rates are in percent (the rate times 100).
LbSnapshots ==
    [kind : {"snapshot"}, symbol : LbSymbols, time : LbTimes, price : LbPrices,
     bid : {None}, ask : {None}, funding : {None}]

\* --horizons-min as the set of its digit tokens, --max-lag-pct in percent,
\* --fee-bps, --slippage-bps, --require-bbo, --disable-funding
LbConfigs ==
    [horizons_min : SUBSET {0, 1}, max_lag_arg : {0, 10}, fee_bps : {0},
     slippage_bps : {0}, require_bbo : {FALSE}, disable_funding : {FALSE}]

SeqsUpTo(S, n) == UNION {[1..k -> S] : k \in 0..n}

Max(a, b) == IF a >= b THEN a ELSE b

RECURSIVE SortedSeq(_)
\* sorted(set): the elements of a finite set of integers in increasing order
SortedSeq(S) ==
    IF S = {} THEN <<>>
    ELSE LET m == CHOOSE x \in S : \A y \in S : x <= y
         IN <<m>> \o SortedSeq(S \ {m})

RECURSIVE SortedStrings(_, _)
\* sorted(glob(...)) over the symbols that have a temp file
SortedStrings(S, order) ==
    IF order = <<>> THEN <<>>
    ELSE (IF Head(order) \in S THEN <<Head(order)>> ELSE <<>>)
         \o SortedStrings(S, Tail(order))

\* line 172
horizons_ms(cfg) == SortedSeq({h * MsPerMin : h \in cfg.horizons_min})

\* line 173, in percent
max_lag_pct(cfg) == Max(0, cfg.max_lag_arg)

\* lines 33-36 and 41-43: the line is skipped with `continue`
LineSkipped(line) == line.kind \in {"unparsable", "badprice"}

\* line 37 (obj.get on a value that has no get) and line 49 (int(time)):
\* the line raises, inside a try that has a finally and no except
LineRaises(line) == line.kind \in {"nonrecord", "badtime"}

\* the lines read before the first one that raises
ReadBeforeRaise(input) ==
    LET raising == {i \in 1..Len(input) : LineRaises(input[i])}
    IN IF raising = {} THEN input
       ELSE SubSeq(input, 1, (CHOOSE i \in raising : \A k \in raising : i <= k) - 1)

\* lines 27-59: each record is appended to the temp file of its symbol
stream_snapshots_to_tmp(input) ==
    LET kept == SelectSeq(ReadBeforeRaise(input), LAMBDA o : ~LineSkipped(o))
        present == {kept[i].symbol : i \in 1..Len(kept)}
        row(o) == [time |-> o.time, price |-> o.price, bid |-> o.bid, ask |-> o.ask,
                   funding |-> o.funding]
        of(sym) == SelectSeq(kept, LAMBDA o : o.symbol = sym)
    IN [sym \in present |-> [i \in 1..Len(of(sym)) |-> row(of(sym)[i])]]

\* a row goes before the rows with the same time
InsertBeforeEqual(sorted, r) ==
    LET n == Cardinality({i \in 1..Len(sorted) : sorted[i].time < r.time})
    IN SubSeq(sorted, 1, n) \o <<r>> \o SubSeq(sorted, n + 1, Len(sorted))

\* list.sort(key=time) is stable: a row goes after the rows with time <= its own
InsertByTime(sorted, r) ==
    LET n == Cardinality({i \in 1..Len(sorted) : sorted[i].time <= r.time})
    IN SubSeq(sorted, 1, n) \o <<r>> \o SubSeq(sorted, n + 1, Len(sorted))

RECURSIVE SortByTime(_)
SortByTime(rows) ==
    IF rows = <<>> THEN <<>>
    ELSE InsertByTime(SortByTime(SubSeq(rows, 1, Len(rows) - 1)), rows[Len(rows)])

NoSort(rows) == rows

\* lines 68-93
load_symbol_rows(rows) == SortByTime(rows)

RECURSIVE bisect_left_loop(_, _, _, _)
bisect_left_loop(a, x, lo, hi) ==
    IF lo < hi
    THEN LET mid == (lo + hi) \div 2
         IN IF a[mid + 1] < x THEN bisect_left_loop(a, x, mid + 1, hi)
            ELSE bisect_left_loop(a, x, lo, mid)
    ELSE lo

\* bisect.bisect_left(a, x), as a 0-based index into the 1-based sequence a
bisect_left(a, x) == bisect_left_loop(a, x, 0, Len(a))

MaxLagUnscaled(horizon_ms, lag_pct) == horizon_ms * lag_pct

\* line 204: int(horizon_ms * max_lag_pct), both factors non-negative
max_lag_ms(horizon_ms, lag_pct) == (horizon_ms * lag_pct) \div 100

\* only the entry price is tested
PriceRejectedAtEntry(price, target_price) == price <= 0

\* line 207
PriceRejected(price, target_price) == price <= 0 \/ target_price <= 0

\* lines 96-97
pick_price(value, fallback) == IF value # None /\ value[1] > 0 THEN value[1] ELSE fallback

\* line 174
cost_bps(cfg) == Max(0, cfg.fee_bps + cfg.slippage_bps)

\* lines 100-124, with cost_frac = cost / 10000; returns in percent.  The
\* prices of the model are such that the quotients are whole numbers.
compute_execution_returns(entry_price, entry_bid, entry_ask, target_price, target_bid, target_ask, cost) ==
    LET eb == pick_price(entry_bid, entry_price)
        ea == pick_price(entry_ask, entry_price)
        tb == pick_price(target_bid, target_price)
        ta == pick_price(target_ask, target_price)
        long_entry == ea * (10000 + cost)
        long_exit == tb * (10000 - cost)
        short_entry == eb * (10000 - cost)
        short_exit == ta * (10000 + cost)
    IN [mid_return_pct |-> ((target_price - entry_price) * 100) \div entry_price,
        long_return_pct |-> ((long_exit - long_entry) * 100) \div long_entry,
        short_return_pct |-> ((short_entry - short_exit) * 100) \div short_entry,
        entry_bid |-> eb, entry_ask |-> ea, target_bid |-> tb, target_ask |-> ta]

\* line 177
eight_hours_ms == 8 * 60 * 60 * 1000

\* lines 127-131, the rate and the result in percent
compute_funding_adjust_pct(funding_rate, horizon_ms, eight_hours) ==
    IF funding_rate = None \/ eight_hours <= 0 THEN 0
    ELSE (funding_rate[1] * horizon_ms) \div eight_hours

\* only the entry snapshot is looked at
BboMissingAtEntry(bid, ask, target_bid, target_ask) == bid = None \/ ask = None

\* lines 211-213
BboMissing(bid, ask, target_bid, target_ask) ==
    bid = None \/ ask = None \/ target_bid = None \/ target_ask = None

\* --disable-funding is not looked at
FundingAdjAlways(cfg, funding_rate, horizon_ms) ==
    compute_funding_adjust_pct(funding_rate, horizon_ms, eight_hours_ms)

\* lines 227-231
funding_adj_pct(cfg, funding_rate, horizon_ms) ==
    IF ~cfg.disable_funding
    THEN compute_funding_adjust_pct(funding_rate, horizon_ms, eight_hours_ms)
    ELSE 0

\* lines 197-262: the body of `for horizon_ms in horizons_ms` for rows[idx]:
\* the exit taken and the payload written, if any
LabelPair(symbol, rows, idx, horizon_ms, cfg) ==
    LET times == [i \in 1..Len(rows) |-> rows[i].time]
        prices == [i \in 1..Len(rows) |-> rows[i].price]
        t == rows[idx].time
        price == rows[idx].price
        lag_pct == max_lag_pct(cfg)
        target_time == t + horizon_ms
        j == bisect_left(times, target_time)
    IN
    IF j >= Len(times) THEN [outcome |-> "skip_no_target", payload |-> None]
    ELSE
    LET target_price == prices[j + 1]
        actual_target_time == times[j + 1]
        lag == actual_target_time - target_time
        max_lag == max_lag_ms(horizon_ms, lag_pct)
    IN
    IF lag > max_lag THEN [outcome |-> "skip_lag", payload |-> None]
    ELSE IF PriceRejected(price, target_price) THEN [outcome |-> "skip_price", payload |-> None]
    ELSE
    LET bid == rows[idx].bid
        ask == rows[idx].ask
        funding_rate == rows[idx].funding
        target_bid == rows[j + 1].bid
        target_ask == rows[j + 1].ask
    IN
    IF cfg.require_bbo /\ BboMissing(bid, ask, target_bid, target_ask)
    THEN [outcome |-> "skip_bbo", payload |-> None]
    ELSE
    LET exec == compute_execution_returns(price, bid, ask, target_price, target_bid,
                                          target_ask, cost_bps(cfg))
        adj == funding_adj_pct(cfg, funding_rate, horizon_ms)
    IN [outcome |-> "label",
        payload |-> Some([symbol |-> symbol,
                          entryTime |-> t,
                          entryPrice |-> price,
                          targetTime |-> target_time,
                          actualTargetTime |-> actual_target_time,
                          lagMs |-> lag,
                          maxLagMs |-> max_lag,
                          entryBid |-> exec.entry_bid,
                          entryAsk |-> exec.entry_ask,
                          targetBid |-> exec.target_bid,
                          targetAsk |-> exec.target_ask,
                          targetPrice |-> target_price,
                          horizonMs |-> horizon_ms,
                          costBpsPerSide |-> cost_bps(cfg),
                          fundingRate |-> funding_rate,
                          fundingAdjPct |-> adj,
                          midReturnPct |-> exec.mid_return_pct,
                          longReturnPct |-> exec.long_return_pct - adj,
                          shortReturnPct |-> exec.short_return_pct + adj])]

RECURSIVE LabelRows(_, _, _, _, _, _)
\* lines 195-262: the payloads written from rows[idx], horizon hidx onwards
LabelRows(symbol, rows, hs, cfg, idx, hidx) ==
    IF idx > Len(rows) THEN <<>>
    ELSE IF hidx > Len(hs) THEN LabelRows(symbol, rows, hs, cfg, idx + 1, 1)
    ELSE LabelPair(symbol, rows, idx, hs[hidx], cfg).payload
         \o LabelRows(symbol, rows, hs, cfg, idx, hidx + 1)

LbIdle ==
    /\ lb_cfg = None
    /\ lb_input = <<>>
    /\ lb_tmp = EmptyMap
    /\ lb_todo = <<>>
    /\ lb_out = <<>>
    /\ lb_pc = "idle"

\* lines 169-179: any command line, any data directory
LbStart ==
    /\ lb_cfg \in LbConfigs
    /\ lb_input \in SeqsUpTo(LbSnapshots, MaxObs)
    /\ lb_tmp = EmptyMap
    /\ lb_todo = <<>>
    /\ lb_out = <<>>
    /\ lb_pc = "start"

\* lines 180-185: stream the snapshots to per-symbol files.  A line that
\* raises ends the run with a traceback, the files written so far stay; no
\* file at all is fatal; otherwise the output file is opened.
StreamSnapshots ==
    /\ program = "labeler"
    /\ lb_pc = "start"
    /\ lb_tmp' = stream_snapshots_to_tmp(lb_input)
    /\ IF \E i \in 1..Len(lb_input) : LineRaises(lb_input[i])
       THEN lb_pc' = "crash" /\ lb_todo' = <<>>
       ELSE /\ lb_todo' = SortedStrings(DOMAIN lb_tmp', <<"X", "Y">>)
            /\ lb_pc' = IF lb_todo' = <<>> THEN "abort" ELSE "label"
    /\ UNCHANGED <<program, fn_vars, bt_vars, br_vars, lb_cfg, lb_input, lb_out>>

\* lines 186-262: one pass of `for path in symbol_files`
LabelSymbol ==
    /\ program = "labeler"
    /\ lb_pc = "label"
    /\ lb_todo # <<>>
    /\ LET symbol == Head(lb_todo)
           rows == load_symbol_rows(lb_tmp[symbol])
       IN lb_out' = lb_out \o LabelRows(symbol, rows, horizons_ms(lb_cfg), lb_cfg, 1, 1)
    /\ lb_todo' = Tail(lb_todo)
    /\ UNCHANGED <<program, fn_vars, bt_vars, br_vars, lb_cfg, lb_input, lb_tmp, lb_pc>>

\* lines 264-276: the output file is closed and the run ends normally
LbFinish ==
    /\ program = "labeler"
    /\ lb_pc = "label"
    /\ lb_todo = <<>>
    /\ lb_pc' = "done"
    /\ UNCHANGED <<program, fn_vars, bt_vars, br_vars, lb_cfg, lb_input, lb_tmp, lb_todo, lb_out>>

LbNext == StreamSnapshots \/ LabelSymbol \/ LbFinish

\* Bound of the labeler run on raw lines: lines in the data directory.
MaxLines == 3

\* an eight-hour horizon, so that a funding rate is charged once
LbRawTimes == {0, 480 * MsPerMin}

\* Lines of every kind; the snapshot records may carry best bid/ask and a
\* funding rate.  A line that is no usable record has its fields at a default.
LbRawLines ==
    [kind : {"snapshot"}, symbol : {"X"}, time : LbRawTimes, price : {100},
     bid : {None, Some(50)}, ask : {None, Some(200)}, funding : {None, Some(2)}]
    \cup
    [kind : LbLineKinds \ {"snapshot"}, symbol : {"X"}, time : {0}, price : {100},
     bid : {None}, ask : {None}, funding : {None}]

LbRawConfigs ==
    [horizons_min : {{480}}, max_lag_arg : {10}, fee_bps : {0}, slippage_bps : {0},
     require_bbo : BOOLEAN, disable_funding : BOOLEAN]

\* lines 169-179: any command line, any data directory
LbRawStart ==
    /\ lb_cfg \in LbRawConfigs
    /\ lb_input \in SeqsUpTo(LbRawLines, MaxLines)
    /\ lb_tmp = EmptyMap
    /\ lb_todo = <<>>
    /\ lb_out = <<>>
    /\ lb_pc = "start"

\* Snapshot records whose features carry a best bid that is absent, zero or
\* positive and a best ask that is absent or positive.
LbBookLines ==
    [kind : {"snapshot"}, symbol : {"X"}, time : LbRawTimes, price : {100},
     bid : {None, Some(0), Some(50)}, ask : {None, Some(200)}, funding : {None}]

LbBookConfigs ==
    [horizons_min : {{480}}, max_lag_arg : {10}, fee_bps : {0}, slippage_bps : {0},
     require_bbo : BOOLEAN, disable_funding : {FALSE}]

\* lines 169-179: a data directory of such records
LbBookStart ==
    /\ lb_cfg \in LbBookConfigs
    /\ lb_input \in SeqsUpTo(LbBookLines, MaxLines)
    /\ lb_tmp = EmptyMap
    /\ lb_todo = <<>>
    /\ lb_out = <<>>
    /\ lb_pc = "start"

(***************************************************************************)
(*                       labeler_barrier.py                                *)
(***************************************************************************)

\* Bounds of the barrier model: raw events and snapshot records on disk.
MaxTicks == 3
MaxSnaps == 1

MsPerSec == 1000

BpsScale == 10000

BrSymbols == {"X", "Y"}

\* raw events that passed the tests of lines 87-109
BrEvents == [symbol : {"X"}, time : {0, MsPerSec, 2 * MsPerSec}, price : {995, 1000, 1010}]

\* snapshot records that passed the tests of lines 51-57
BrSnapshots == [symbol : BrSymbols, time : {0, MsPerSec}, price : {1000}]

BrConfigs == [horizon_sec : {0, 1}, tp_bps : {0, 100}, sl_bps : {0, 100}, side : {"both"}]

\* The event files the temp directory holds before the run: none (a fresh
\* mkdtemp directory), or with --tmp-dir a kept Y_evt.jsonl without a usable row.
BrTmpDirs == {EmptyMap, [sym \in {"Y"} |-> <<>>]}

\* files are opened in append mode: the rows streamed go after those on disk
AppendToTmp(tmp, streamed) ==
    [sym \in DOMAIN tmp \cup DOMAIN streamed |->
        (IF sym \in DOMAIN tmp THEN tmp[sym] ELSE <<>>)
        \o (IF sym \in DOMAIN streamed THEN streamed[sym] ELSE <<>>)]

\* lines 41-63 and 77-115: each record is appended to the temp file of its symbol
stream_to_tmp(input) ==
    LET present == {input[i].symbol : i \in 1..Len(input)}
        row(o) == [time |-> o.time, price |-> o.price]
        of(sym) == SelectSeq(input, LAMBDA o : o.symbol = sym)
    IN [sym \in present |-> [i \in 1..Len(of(sym)) |-> row(of(sym)[i])]]

\* lines 125-142, on the file of a symbol that has one
br_load_symbol_rows(tmp, symbol) == SortByTime(tmp[symbol])

\* price >= entry_price * (1.0 + bps / 10000.0), in exact arithmetic
AtOrAbove(price, entry_price, bps) == price * BpsScale >= entry_price * (BpsScale + bps)

\* price <= entry_price * (1.0 - bps / 10000.0), in exact arithmetic
AtOrBelow(price, entry_price, bps) == price * BpsScale <= entry_price * (BpsScale - bps)

TimeOut(end_time, entry_price) ==
    [label |-> "TIME", exitTime |-> end_time, exitPrice |-> entry_price]

Hit(label, row) == [label |-> label, exitTime |-> row.time, exitPrice |-> row.price]

RECURSIVE scan_long(_, _, _, _, _, _)
\* lines 163-177
scan_long(rows, i, end_time, entry_price, tp_bps, sl_bps) ==
    IF i > Len(rows) THEN TimeOut(end_time, entry_price)
    ELSE IF rows[i].time > end_time THEN TimeOut(end_time, entry_price)
    ELSE IF AtOrAbove(rows[i].price, entry_price, tp_bps) THEN Hit("TP", rows[i])
    ELSE IF AtOrBelow(rows[i].price, entry_price, sl_bps) THEN Hit("SL", rows[i])
    ELSE scan_long(rows, i + 1, end_time, entry_price, tp_bps, sl_bps)

RECURSIVE scan_short(_, _, _, _, _, _)
\* lines 198-212
scan_short(rows, i, end_time, entry_price, tp_bps, sl_bps) ==
    IF i > Len(rows) THEN TimeOut(end_time, entry_price)
    ELSE IF rows[i].time > end_time THEN TimeOut(end_time, entry_price)
    ELSE IF AtOrBelow(rows[i].price, entry_price, tp_bps) THEN Hit("TP", rows[i])
    ELSE IF AtOrAbove(rows[i].price, entry_price, sl_bps) THEN Hit("SL", rows[i])
    ELSE scan_short(rows, i + 1, end_time, entry_price, tp_bps, sl_bps)

TimesOf(rows) == [i \in 1..Len(rows) |-> rows[i].time]

RECURSIVE scan_one_barrier(_, _, _, _, _, _)
\* the first tick up to end_time at or above (up) / at or below the barrier
scan_one_barrier(rows, i, end_time, entry_price, bps, up) ==
    IF i > Len(rows) THEN None
    ELSE IF rows[i].time > end_time THEN None
    ELSE IF (IF up THEN AtOrAbove(rows[i].price, entry_price, bps)
                   ELSE AtOrBelow(rows[i].price, entry_price, bps))
         THEN Some(rows[i])
    ELSE scan_one_barrier(rows, i + 1, end_time, entry_price, bps, up)

\* a take-profit tick anywhere in the window wins over an earlier stop-loss tick
classify_path_tp_priority(rows, start_time, horizon_ms, entry_price, tp_bps, sl_bps) ==
    LET end_time == start_time + horizon_ms
        idx == bisect_left(TimesOf(rows), start_time)
        tp == scan_one_barrier(rows, idx + 1, end_time, entry_price, tp_bps, TRUE)
        sl == scan_one_barrier(rows, idx + 1, end_time, entry_price, sl_bps, FALSE)
    IN IF tp # None THEN Hit("TP", tp[1])
       ELSE IF sl # None THEN Hit("SL", sl[1])
       ELSE TimeOut(end_time, entry_price)

RECURSIVE scan_long_sl_first(_, _, _, _, _, _)
scan_long_sl_first(rows, i, end_time, entry_price, tp_bps, sl_bps) ==
    IF i > Len(rows) THEN TimeOut(end_time, entry_price)
    ELSE IF rows[i].time > end_time THEN TimeOut(end_time, entry_price)
    ELSE IF AtOrBelow(rows[i].price, entry_price, sl_bps) THEN Hit("SL", rows[i])
    ELSE IF AtOrAbove(rows[i].price, entry_price, tp_bps) THEN Hit("TP", rows[i])
    ELSE scan_long_sl_first(rows, i + 1, end_time, entry_price, tp_bps, sl_bps)

\* the stop-loss test comes before the take-profit test
classify_path_sl_first(rows, start_time, horizon_ms, entry_price, tp_bps, sl_bps) ==
    LET end_time == start_time + horizon_ms
        idx == bisect_left(TimesOf(rows), start_time)
    IN scan_long_sl_first(rows, idx + 1, end_time, entry_price, tp_bps, sl_bps)

\* the scan stops one millisecond early: a tick at end_time is not looked at
classify_path_open_end(rows, start_time, horizon_ms, entry_price, tp_bps, sl_bps) ==
    LET end_time == start_time + horizon_ms
        idx == bisect_left(TimesOf(rows), start_time)
        res == scan_long(rows, idx + 1, end_time - 1, entry_price, tp_bps, sl_bps)
    IN IF res.label = "TIME" THEN TimeOut(end_time, entry_price) ELSE res

\* the scan starts at the first tick of the list, not at start_time
classify_path_from_first(rows, start_time, horizon_ms, entry_price, tp_bps, sl_bps) ==
    scan_long(rows, 1, start_time + horizon_ms, entry_price, tp_bps, sl_bps)

RECURSIVE scan_short_strict_sl(_, _, _, _, _, _)
scan_short_strict_sl(rows, i, end_time, entry_price, tp_bps, sl_bps) ==
    IF i > Len(rows) THEN TimeOut(end_time, entry_price)
    ELSE IF rows[i].time > end_time THEN TimeOut(end_time, entry_price)
    ELSE IF AtOrBelow(rows[i].price, entry_price, tp_bps) THEN Hit("TP", rows[i])
    ELSE IF ~AtOrBelow(rows[i].price, entry_price, -sl_bps) THEN Hit("SL", rows[i])
    ELSE scan_short_strict_sl(rows, i + 1, end_time, entry_price, tp_bps, sl_bps)

\* the short stop-loss needs a price strictly above the stop-loss price
classify_path_short_strict_sl(rows, start_time, horizon_ms, entry_price, tp_bps, sl_bps) ==
    LET end_time == start_time + horizon_ms
        idx == bisect_left(TimesOf(rows), start_time)
    IN scan_short_strict_sl(rows, idx + 1, end_time, entry_price, tp_bps, sl_bps)

\* lines 145-177
classify_path(rows, start_time, horizon_ms, entry_price, tp_bps, sl_bps) ==
    LET end_time == start_time + horizon_ms
        idx == bisect_left(TimesOf(rows), start_time)
    IN scan_long(rows, idx + 1, end_time, entry_price, tp_bps, sl_bps)

\* lines 180-212
classify_path_short(rows, start_time, horizon_ms, entry_price, tp_bps, sl_bps) ==
    LET end_time == start_time + horizon_ms
        idx == bisect_left(TimesOf(rows), start_time)
    IN scan_short(rows, idx + 1, end_time, entry_price, tp_bps, sl_bps)

\* lines 259-294: the payload of one snapshot
BarrierPayload(symbol, rows, snap, cfg) ==
    LET horizon_ms == cfg.horizon_sec * MsPerSec IN
    [symbol |-> symbol,
     entryTime |-> snap.time,
     entryPrice |-> snap.price,
     horizonMs |-> horizon_ms,
     tpBps |-> cfg.tp_bps,
     slBps |-> cfg.sl_bps,
     long |-> IF cfg.side \in {"long", "both"}
              THEN Some(classify_path(rows, snap.time, horizon_ms, snap.price,
                                      cfg.tp_bps, cfg.sl_bps))
              ELSE None,
     short |-> IF cfg.side \in {"short", "both"}
               THEN Some(classify_path_short(rows, snap.time, horizon_ms, snap.price,
                                             cfg.tp_bps, cfg.sl_bps))
               ELSE None]

BrIdle ==
    /\ br_cfg = None
    /\ br_snaps = <<>>
    /\ br_events = <<>>
    /\ br_snap_tmp = EmptyMap
    /\ br_evt_tmp = EmptyMap
    /\ br_todo = <<>>
    /\ br_out = <<>>
    /\ br_missing = 0
    /\ br_pc = "idle"

\* lines 227-233: any command line, any two data directories
BrStart ==
    /\ br_cfg \in BrConfigs
    /\ br_snaps \in SeqsUpTo(BrSnapshots, MaxSnaps)
    /\ br_events \in SeqsUpTo(BrEvents, MaxTicks)
    /\ br_snap_tmp = EmptyMap
    /\ br_evt_tmp \in BrTmpDirs
    /\ br_todo = <<>>
    /\ br_out = <<>>
    /\ br_missing = 0
    /\ br_pc = "start"

\* lines 229-244: the horizon is validated, both inputs are streamed to
\* per-symbol files; a missing input is fatal, otherwise the output is opened
BrStream ==
    /\ program = "barrier"
    /\ br_pc = "start"
    /\ IF br_cfg.horizon_sec * MsPerSec <= 0
       THEN /\ br_pc' = "abort"
            /\ UNCHANGED <<br_snap_tmp, br_evt_tmp, br_todo>>
       ELSE /\ br_snap_tmp' = stream_to_tmp(br_snaps)
            /\ br_evt_tmp' = AppendToTmp(br_evt_tmp, stream_to_tmp(br_events))
            /\ IF DOMAIN br_snap_tmp' = {} \/ DOMAIN br_evt_tmp' = {}
               THEN br_pc' = "abort" /\ br_todo' = <<>>
               ELSE /\ br_pc' = "label"
                    /\ br_todo' = SortedStrings(DOMAIN br_snap_tmp', <<"X", "Y">>)
    /\ UNCHANGED <<program, fn_vars, bt_vars, lb_vars, br_cfg, br_snaps, br_events, br_out,
                   br_missing>>

\* lines 248-250 and 127: a snapshot file whose symbol has no event file.
\* event_index.get(symbol, "") is "" and load_symbol_rows("") opens it:
\* FileNotFoundError, caught nowhere; the output keeps what was written.
BrNoEventFile ==
    /\ program = "barrier"
    /\ br_pc = "label"
    /\ br_todo # <<>>
    /\ Head(br_todo) \notin DOMAIN br_evt_tmp
    /\ br_pc' = "crash"
    /\ UNCHANGED <<program, fn_vars, bt_vars, lb_vars, br_cfg, br_snaps, br_events,
                   br_snap_tmp, br_evt_tmp, br_todo, br_out, br_missing>>

\* lines 248-253: a snapshot file whose symbol has an event file without rows
BrMissingEvents ==
    /\ program = "barrier"
    /\ br_pc = "label"
    /\ br_todo # <<>>
    /\ Head(br_todo) \in DOMAIN br_evt_tmp
    /\ br_load_symbol_rows(br_evt_tmp, Head(br_todo)) = <<>>
    /\ br_missing' = br_missing + 1
    /\ br_todo' = Tail(br_todo)
    /\ UNCHANGED <<program, fn_vars, bt_vars, lb_vars, br_cfg, br_snaps, br_events, br_snap_tmp,
                   br_evt_tmp, br_out, br_pc>>

\* lines 248-295: a snapshot file whose symbol has events: every snapshot of
\* the file, in time order, gets a payload
BrLabelSnapshots ==
    /\ program = "barrier"
    /\ br_pc = "label"
    /\ br_todo # <<>>
    /\ Head(br_todo) \in DOMAIN br_evt_tmp
    /\ LET symbol == Head(br_todo)
           rows == br_load_symbol_rows(br_evt_tmp, symbol)
           snapshots == br_load_symbol_rows(br_snap_tmp, symbol)
       IN /\ rows # <<>>
          /\ br_out' = br_out \o [k \in 1..Len(snapshots) |->
                                     BarrierPayload(symbol, rows, snapshots[k], br_cfg)]
    /\ br_todo' = Tail(br_todo)
    /\ UNCHANGED <<program, fn_vars, bt_vars, lb_vars, br_cfg, br_snaps, br_events, br_snap_tmp,
                   br_evt_tmp, br_missing, br_pc>>

\* lines 297-311: the counts are printed and the run ends normally
BrFinish ==
    /\ program = "barrier"
    /\ br_pc = "label"
    /\ br_todo = <<>>
    /\ br_pc' = "done"
    /\ UNCHANGED <<program, fn_vars, bt_vars, lb_vars, br_cfg, br_snaps, br_events, br_snap_tmp,
                   br_evt_tmp, br_todo, br_out, br_missing>>

BrNext == BrStream \/ BrNoEventFile \/ BrMissingEvents \/ BrLabelSnapshots \/ BrFinish

(***************************************************************************)
(*      labeler_barrier.py: the two classifiers called on their own        *)
(***************************************************************************)

\* Bounds: ticks in the caller's list, calls made on it.
MaxPath == 2
MaxCalls == 2

CpTicks == [time : {0, MsPerSec, 2 * MsPerSec}, price : {990, 995, 1000, 1010}]

CpArgs ==
    [start_time : {0, MsPerSec}, horizon_ms : {MsPerSec}, entry_price : {1000},
     tp_bps : {0, 100}, sl_bps : {0, 100}]

\* the scan removes the ticks it has looked at from the caller's list
RowsAfterConsume(rows, start_time, horizon_ms, entry_price, tp_bps, sl_bps) ==
    SelectSeq(rows, LAMBDA r : r.time > start_time + horizon_ms)

\* lines 145-212: the caller's list after a call.  Both functions read rows
\* (rows[i], len(rows), a fresh list `times`) and never assign to it or to one
\* of its elements.
rows_after_classify(rows, start_time, horizon_ms, entry_price, tp_bps, sl_bps) == rows

CpIdle ==
    /\ cp_rows = <<>>
    /\ cp_args = None
    /\ cp_results = <<>>

\* any tick list, sorted or not, and any arguments
CpStart ==
    /\ cp_rows \in SeqsUpTo(CpTicks, MaxPath)
    /\ cp_args \in CpArgs
    /\ cp_results = <<>>

\* one call of the long or the short classifier on the caller's list
CpCall(side) ==
    LET a == cp_args
        result == IF side = "long"
                  THEN classify_path(cp_rows, a.start_time, a.horizon_ms, a.entry_price,
                                     a.tp_bps, a.sl_bps)
                  ELSE classify_path_short(cp_rows, a.start_time, a.horizon_ms,
                                           a.entry_price, a.tp_bps, a.sl_bps)
        after == rows_after_classify(cp_rows, a.start_time, a.horizon_ms, a.entry_price,
                                     a.tp_bps, a.sl_bps)
    IN /\ program = "classify"
       /\ Len(cp_results) < MaxCalls
       /\ cp_results' = Append(cp_results, [side |-> side, rows |-> cp_rows,
                                            result |-> result, rows_after |-> after])
       /\ cp_rows' = after
       /\ UNCHANGED <<program, bt_vars, lb_vars, br_vars, cp_args, dd_vars, cx_vars>>

CallClassifyPath == CpCall("long")

CallClassifyPathShort == CpCall("short")

CpNext == CallClassifyPath \/ CallClassifyPathShort

(***************************************************************************)
(*                  backtest.py: summarize_returns                         *)
(***************************************************************************)

\* Bound: the length of the returns array.
MaxReturns == 3

\* realized returns, in percent
DdReturnValues == {-3, -1, 1, 2}

RECURSIVE cumsum(_)
\* line 154: np.cumsum
cumsum(returns) ==
    IF returns = <<>> THEN <<>>
    ELSE LET front == cumsum(SubSeq(returns, 1, Len(returns) - 1))
         IN Append(front, (IF front = <<>> THEN 0 ELSE Last(front)) + Last(returns))

RECURSIVE MaximumAccumulateFromZero(_)
\* the running peak starts from the capital before the first trade
MaximumAccumulateFromZero(equity) ==
    IF equity = <<>> THEN <<>>
    ELSE LET front == MaximumAccumulateFromZero(SubSeq(equity, 1, Len(equity) - 1))
         IN Append(front, Max(IF front = <<>> THEN 0 ELSE Last(front), Last(equity)))

RECURSIVE maximum_accumulate(_)
\* line 54: np.maximum.accumulate
maximum_accumulate(equity) ==
    IF equity = <<>> THEN <<>>
    ELSE LET front == maximum_accumulate(SubSeq(equity, 1, Len(equity) - 1))
         IN Append(front, IF front = <<>> THEN Last(equity)
                          ELSE Max(Last(front), Last(equity)))

RECURSIVE np_min(_)
\* line 56: np.min of a non-empty array
np_min(a) ==
    IF Len(a) = 1 THEN a[1]
    ELSE LET m == np_min(SubSeq(a, 1, Len(a) - 1))
         IN IF a[Len(a)] < m THEN a[Len(a)] ELSE m

\* lines 51-56
compute_max_drawdown(equity) ==
    IF Len(equity) = 0 THEN 0
    ELSE LET running_max == maximum_accumulate(equity)
             drawdowns == [i \in 1..Len(equity) |-> equity[i] - running_max[i]]
         IN np_min(drawdowns)

\* lines 136-165.  Of the summary the model keeps the whole-number entries:
\* trades, cumPct and maxDrawdownPct, and the count behind hitRate.
summarize_returns(returns) ==
    IF Len(returns) = 0
    THEN [trades |-> 0, wins |-> 0, cumPct |-> 0, maxDrawdownPct |-> 0]
    ELSE LET equity == cumsum(returns)
             max_dd == compute_max_drawdown(equity)
         IN [trades |-> Len(returns),
             wins |-> Cardinality({i \in 1..Len(returns) : returns[i] > 0}),
             cumPct |-> Last(equity),
             maxDrawdownPct |-> max_dd]

DdIdle ==
    /\ dd_returns = <<>>
    /\ dd_summary = None

\* any returns array
DdStart ==
    /\ dd_returns \in SeqsUpTo(DdReturnValues, MaxReturns)
    /\ dd_summary = None

\* line 209: summary = summarize_returns(returns)
Summarize ==
    /\ program = "summarize"
    /\ dd_summary = None
    /\ dd_summary' = Some(summarize_returns(dd_returns))
    /\ UNCHANGED <<program, bt_vars, lb_vars, br_vars, cp_vars, dd_returns, cx_vars>>

DdNext == Summarize

(***************************************************************************)
(*              build_dataset.py: compute_context_features                 *)
(***************************************************************************)

\* Bound: observations of the auxiliary symbol BTCUSDT in the context index.
MaxCtx == 4

CxObs == [time : {0, MsPerMin, 2 * MsPerMin}, price : {0, 100, 200}]

\* context_index as build_context_index leaves it (lines 141-149): a symbol
\* is present only with at least one observation, and its pairs are sorted by
\* time.  ETHUSDT is absent or has one observation at time 0.
CxIndexes ==
    LET btc == {SortByTime(q) : q \in SeqsUpTo(CxObs, MaxCtx)} \ {<<>>}
        eth == {<<>>, <<[time |-> 0, price |-> 100]>>}
    IN { [sym \in (IF b = <<>> THEN {} ELSE {"BTCUSDT"})
                  \cup (IF e = <<>> THEN {} ELSE {"ETHUSDT"}) |->
             IF sym = "BTCUSDT" THEN b ELSE e] : b \in btc \cup {<<>>}, e \in eth }

\* --context-windows-min 1,2 and --max-context-lag-min 1 or 2 (lines 236-239)
CxArgs ==
    [entry_time : {MsPerMin, 2 * MsPerMin},
     context_windows_ms : {<<MsPerMin, 2 * MsPerMin>>},
     max_context_lag_ms : {MsPerMin, 2 * MsPerMin}]

RECURSIVE bisect_right_loop(_, _, _, _)
bisect_right_loop(a, x, lo, hi) ==
    IF lo < hi
    THEN LET mid == (lo + hi) \div 2
         IN IF x < a[mid + 1] THEN bisect_right_loop(a, x, lo, mid)
            ELSE bisect_right_loop(a, x, mid + 1, hi)
    ELSE lo

\* the index after the last observation is taken, whatever the entry time
BisectRightAtEnd(a, x) == Len(a)

\* bisect.bisect_right(a, x), as a 0-based index into the 1-based sequence a
bisect_right(a, x) == bisect_right_loop(a, x, 0, Len(a))

\* the feature names f"ctx_{sym}_ageMs", f"ctx_{sym}_price",
\* f"ctx_{sym}_trend_{label}" and f"ctx_{sym}_vol_{label}", the label being
\* the number in f"{int(window_ms / 60000)}m" (0 where there is none)
CxKey(sym, name, label) == <<sym, name, label>>

\* line 177
CxLabel(window_ms) == window_ms \div 60000

\* a stale symbol is treated like a fresh one
IsStaleNever(age_ms, max_context_lag_ms) == FALSE

\* line 169
IsStale(age_ms, max_context_lag_ms) == age_ms > max_context_lag_ms

\* lines 191-197: the percent returns between consecutive positive prices
RECURSIVE CxReturns(_, _)
CxReturns(window_prices, i) ==
    IF i > Len(window_prices) THEN <<>>
    ELSE LET prev == window_prices[i - 1]
             nxt == window_prices[i]
         IN (IF prev > 0 /\ nxt > 0 THEN <<((nxt - prev) * 100) \div prev>> ELSE <<>>)
            \o CxReturns(window_prices, i + 1)

RECURSIVE CxSum(_)
CxSum(seq) == IF seq = <<>> THEN 0 ELSE Head(seq) + CxSum(Tail(seq))

\* lines 200-202: the sample variance as the exact quotient
\* scaled / (n * n * (n - 1)), whose square root is the feature
CxVol(returns) ==
    LET n == Len(returns)
        total == CxSum(returns)
    IN [n |-> n,
        scaled |-> CxSum([i \in 1..n |-> (n * returns[i] - total) * (n * returns[i] - total)])]

\* lines 177-202: the body of `for window_ms in context_windows_ms`
CxWindow(features, sym, times, prices, idx, end_price, entry_time, window_ms) ==
    LET label == CxLabel(window_ms)
        start_time == entry_time - window_ms
        start_idx == bisect_left(times, start_time)
    IN
    IF start_idx > idx THEN features
    ELSE
    LET start_price == prices[start_idx + 1] IN
    IF start_price <= 0 THEN features
    ELSE
    LET trend == ((end_price - start_price) * 100) \div start_price
        with_trend == Put(features, CxKey(sym, "trend", label), trend)
        window_prices == SubSeq(prices, start_idx + 1, idx + 1)
    IN
    IF Len(window_prices) < 4 THEN with_trend
    ELSE
    LET returns == CxReturns(window_prices, 2) IN
    IF Len(returns) < 3 THEN with_trend
    ELSE Put(with_trend, CxKey(sym, "vol", label), CxVol(returns))

RECURSIVE CxWindowsBreak(_, _, _, _, _, _, _, _, _)
\* a window without a trend ends the loop over the windows
CxWindowsBreak(features, sym, times, prices, idx, end_price, entry_time, windows, k) ==
    IF k > Len(windows) THEN features
    ELSE LET next == CxWindow(features, sym, times, prices, idx, end_price, entry_time,
                              windows[k])
         IN IF next = features THEN features
            ELSE CxWindowsBreak(next, sym, times, prices, idx, end_price, entry_time,
                                windows, k + 1)

RECURSIVE CxWindows(_, _, _, _, _, _, _, _, _)
\* line 176: the windows in list order, from window k on
CxWindows(features, sym, times, prices, idx, end_price, entry_time, windows, k) ==
    IF k > Len(windows) THEN features
    ELSE CxWindows(CxWindow(features, sym, times, prices, idx, end_price, entry_time,
                            windows[k]),
                   sym, times, prices, idx, end_price, entry_time, windows, k + 1)

\* lines 162-202: the body of `for sym, (times, prices) in context_index.items()`
CxSymbol(features, sym, rows, entry_time, context_windows_ms, max_context_lag_ms) ==
    LET times == [i \in 1..Len(rows) |-> rows[i].time]
        prices == [i \in 1..Len(rows) |-> rows[i].price]
    IN
    IF Len(times) = 0 THEN features
    ELSE
    LET idx == bisect_right(times, entry_time) - 1 IN
    IF idx < 0 THEN features
    ELSE
    LET age_ms == entry_time - times[idx + 1]
        with_age == Put(features, CxKey(sym, "ageMs", 0), age_ms)
    IN
    IF IsStale(age_ms, max_context_lag_ms) THEN with_age
    ELSE
    LET end_price == prices[idx + 1] IN
    IF end_price <= 0 THEN with_age
    ELSE CxWindows(Put(with_age, CxKey(sym, "price", 0), end_price),
                   sym, times, prices, idx, end_price, entry_time, context_windows_ms, 1)

RECURSIVE CxSymbols(_, _, _, _, _, _)
\* line 161: the symbols of the index, in the order given
CxSymbols(features, context_index, order, entry_time, context_windows_ms, max_context_lag_ms) ==
    IF order = <<>> THEN features
    ELSE CxSymbols(CxSymbol(features, Head(order), context_index[Head(order)], entry_time,
                            context_windows_ms, max_context_lag_ms),
                   context_index, Tail(order), entry_time, context_windows_ms,
                   max_context_lag_ms)

\* lines 152-203
compute_context_features(context_index, entry_time, context_windows_ms, max_context_lag_ms) ==
    CxSymbols(EmptyMap, context_index,
              SortedStrings(DOMAIN context_index, <<"BTCUSDT", "ETHUSDT">>),
              entry_time, context_windows_ms, max_context_lag_ms)

\* any context index, any entry time
CxStart ==
    /\ cx_index \in CxIndexes
    /\ cx_args \in CxArgs
    /\ cx_features = None

\* build_dataset.py main: the context features of one snapshot
ComputeContext ==
    /\ program = "context"
    /\ cx_features = None
    /\ cx_features' = Some(compute_context_features(cx_index, cx_args.entry_time,
                                                    cx_args.context_windows_ms,
                                                    cx_args.max_context_lag_ms))
    /\ UNCHANGED <<program, bt_vars, lb_vars, br_vars, cp_vars, dd_vars, cx_index, cx_args>>

CxNext == ComputeContext

(***************************************************************************)
(*                        The programs                                     *)
(***************************************************************************)

CxIdle ==
    /\ cx_index = EmptyMap
    /\ cx_args = None
    /\ cx_features = None

FnIdle == CpIdle /\ DdIdle /\ CxIdle

BtInit == program = "backtest" /\ BtStart /\ LbIdle /\ BrIdle /\ FnIdle

LbInit == program = "labeler" /\ LbStart /\ BtIdle /\ BrIdle /\ FnIdle

LbRawInit == program = "labeler" /\ LbRawStart /\ BtIdle /\ BrIdle /\ FnIdle

LbBookInit == program = "labeler" /\ LbBookStart /\ BtIdle /\ BrIdle /\ FnIdle

BrInit == program = "barrier" /\ BrStart /\ BtIdle /\ LbIdle /\ FnIdle

CpInit == program = "classify" /\ CpStart /\ BtIdle /\ LbIdle /\ BrIdle /\ DdIdle /\ CxIdle

DdInit == program = "summarize" /\ DdStart /\ BtIdle /\ LbIdle /\ BrIdle /\ CpIdle /\ CxIdle

CxInit == program = "context" /\ CxStart /\ BtIdle /\ LbIdle /\ BrIdle /\ CpIdle /\ DdIdle

SpecBacktest == BtInit /\ [][BtNext]_vars

SpecLabeler == LbInit /\ [][LbNext]_vars

SpecLabelerRaw == LbRawInit /\ [][LbNext]_vars

SpecLabelerBook == LbBookInit /\ [][LbNext]_vars

SpecBarrier == BrInit /\ [][BrNext]_vars

SpecClassify == CpInit /\ [][CpNext]_vars

SpecSummary == DdInit /\ [][DdNext]_vars

SpecContext == CxInit /\ [][CxNext]_vars

\* a behaviour runs one of the programs
Init == BtInit \/ LbInit \/ LbRawInit \/ LbBookInit \/ BrInit \/ CpInit \/ DdInit \/ CxInit

Next == BtNext \/ LbNext \/ BrNext \/ CpNext \/ DdNext \/ CxNext

Spec == Init /\ [][Next]_vars

(***************************************************************************)
(*                    Properties of run_backtest                           *)
(***************************************************************************)

\* The row-level properties below speak of the loop body on every row the
\* frame may hold next, from every state the run can be in before that row.
MoreRows == bt_rows < MaxRows

\* C1: backtest non-overlap.  For every two recorded trades A and B of one
\* symbol with A.entryTime < B.entryTime (consecutive ones included),
\* B.entryTime >= A.exitTime.
C1_BacktestNonOverlap ==
    \A i, j \in 1..Len(trades) :
        (trades[i].symbol = trades[j].symbol /\ trades[i].entryTime < trades[j].entryTime)
            => trades[j].entryTime >= trades[i].exitTime

\* Two trades of one symbol have been recorded, the later one after the
\* earlier one's exit.
C1_Witness ==
    \E i, j \in 1..Len(trades) :
        /\ i < j
        /\ trades[i].symbol = trades[j].symbol
        /\ trades[i].entryTime < trades[j].entryTime

\* C2: a row whose entryTime is strictly below lastExit[symbol] records no
\* trade and leaves lastExit and the trade list unchanged, whatever else it
\* carries; and the watermark rule rejects only such rows: not a row with
\* entryTime = lastExit[symbol], and not a row of a symbol without watermark.
C2_WatermarkRule ==
    MoreRows =>
    \A r \in BtRows :
        LET res == RowResult(r)
            below == /\ r.entryTime # None
                     /\ r.symbol \in DOMAIN last_exit
                     /\ r.entryTime[1] < last_exit[r.symbol]
        IN /\ below => /\ res.trades = trades
                       /\ res.trade_returns = trade_returns
                       /\ res.last_exit = last_exit
                       /\ res.outcome # "trade"
           /\ res.outcome = "skip_position" => below

\* A row was rejected by the watermark rule after a trade of its symbol.
C2_Witness ==
    /\ bt_outcome = "skip_position"
    /\ Len(trades) >= 1

\* C3: for every row that passes the validity and watermark checks the action
\* is long iff prediction >= longThreshold; otherwise short iff shorting is
\* enabled and prediction <= -shortThreshold; otherwise the row is dropped
\* with no trade and no change of lastExit.  Every recorded trade carries the
\* action so chosen for its prediction.
C3_PassesChecks(r) ==
    /\ r.symbol # NoSymbol
    /\ r.entryTime # None
    /\ r.horizonMs # None
    /\ r.prediction # None
    /\ r.horizonMs[1] > 0
    /\ ~(r.symbol \in DOMAIN last_exit /\ r.entryTime[1] < last_exit[r.symbol])

C3_Expected(p) ==
    IF p >= bt_cfg.long_threshold THEN "long"
    ELSE IF bt_cfg.short_enabled /\ p <= -bt_cfg.short_threshold THEN "short"
    ELSE NoAction

C3_ActionRule ==
    /\ \A i \in 1..Len(trades) : trades[i].action = C3_Expected(trades[i].prediction)
    /\ MoreRows =>
       \A r \in BtRows :
          C3_PassesChecks(r) =>
             LET res == RowResult(r)
                 want == C3_Expected(r.prediction[1])
             IN /\ res.action = want
                /\ want = NoAction => /\ res.outcome = "skip_noaction"
                                      /\ res.trades = trades
                                      /\ res.trade_returns = trade_returns
                                      /\ res.last_exit = last_exit
                /\ res.outcome = "trade" => Last(res.trades).action = want

\* A long trade was recorded for a prediction that also met the short
\* condition with shorting enabled.
C3_Witness ==
    /\ bt_outcome = "trade"
    /\ bt_action = "long"
    /\ bt_cfg.short_enabled
    /\ Last(trades).action = "long"
    /\ Last(trades).prediction <= -bt_cfg.short_threshold

\* C15: return selection.  For a row that passes the checks and gets an
\* action, the realized return is longReturnPct when finite, else returnPct
\* when finite, for a long; shortReturnPct when finite, else the negation of
\* returnPct when finite, for a short; the trade records it less the extra
\* cost.  When neither is finite the row records no trade and lastExit is
\* unchanged.
C15_Selected(r, action) ==
    IF action = "long"
    THEN (IF r.longReturnPct # None THEN r.longReturnPct ELSE r.returnPct)
    ELSE (IF r.shortReturnPct # None THEN r.shortReturnPct
          ELSE IF r.returnPct # None THEN Some(0 - r.returnPct[1]) ELSE None)

C15_ReturnSelection ==
    MoreRows =>
    \A r \in BtRows :
        (C3_PassesChecks(r) /\ C3_Expected(r.prediction[1]) # NoAction) =>
            LET res == RowResult(r)
                want == C15_Selected(r, C3_Expected(r.prediction[1]))
            IN /\ want = None => /\ res.outcome = "skip_noreturn"
                                 /\ res.trades = trades
                                 /\ res.trade_returns = trade_returns
                                 /\ res.last_exit = last_exit
               /\ want # None => /\ res.outcome = "trade"
                                 /\ Last(res.trades).realizedPct
                                       = want[1] - bt_cfg.extra_cost_bps
                                 /\ Last(res.trade_returns) = Last(res.trades).realizedPct

\* A short trade was recorded on the negated base return of a row without a
\* short return.
C15_Witness ==
    /\ bt_outcome = "trade"
    /\ bt_action = "short"
    /\ \E rc \in BtReturnColumns :
          /\ rc[2] = None
          /\ rc[3] # None
          /\ Last(trades).realizedPct = (0 - rc[3][1]) - bt_cfg.extra_cost_bps

\* the trades of a symbol, as positions in the trade list
BtTradesOf(sym) == {i \in 1..Len(trades) : trades[i].symbol = sym}

\* C16: every recorded trade has exitTime = entryTime + horizonMs and
\* realizedPct = selected return - extraCostBps/100, and right after it is
\* recorded lastExit[symbol] is its exitTime; lastExit changes only when a
\* trade is recorded, so it always holds the exit of each symbol's last trade.
C16_TradeFields ==
    /\ DOMAIN last_exit = {trades[i].symbol : i \in 1..Len(trades)}
    /\ \A sym \in DOMAIN last_exit :
          LET last == CHOOSE i \in BtTradesOf(sym) : \A k \in BtTradesOf(sym) : k <= i
          IN last_exit[sym] = trades[last].exitTime
    /\ MoreRows =>
       \A r \in BtRows :
          LET res == RowResult(r)
          IN /\ res.outcome # "trade" => res.last_exit = last_exit /\ res.trades = trades
             /\ res.outcome = "trade" =>
                   LET t == Last(res.trades)
                   IN /\ Len(res.trades) = Len(trades) + 1
                      /\ t.symbol = r.symbol
                      /\ t.entryTime = r.entryTime[1]
                      /\ t.exitTime = r.entryTime[1] + r.horizonMs[1]
                      /\ t.realizedPct = C15_Selected(r, t.action)[1] - bt_cfg.extra_cost_bps
                      /\ res.last_exit[r.symbol] = t.exitTime
                      /\ \A sym \in DOMAIN last_exit \ {r.symbol} :
                            res.last_exit[sym] = last_exit[sym]

\* A second trade of a symbol was recorded with a positive extra cost and
\* moved the symbol's lastExit from the first trade's exit to its own.
C16_Witness ==
    /\ bt_outcome = "trade"
    /\ bt_cfg.extra_cost_bps > 0
    /\ Len(trades) = 2
    /\ trades[1].symbol = trades[2].symbol
    /\ trades[2].exitTime > trades[1].exitTime
    /\ last_exit[trades[2].symbol] = trades[2].exitTime

\* the trades of a symbol in the order recorded
BtTradeSeqOf(sym) == SelectSeq(trades, LAMBDA t : t.symbol = sym)

\* C21: symbol independence.  For any interleaving of rows of several
\* symbols, the trades recorded for a symbol and the symbol's watermark are
\* those of the run on the symbol's rows alone, in the same relative order;
\* and a row is accepted or rejected as it is in the run of its own symbol,
\* whatever the rows of other symbols did.
C21_SymbolIndependence ==
    /\ \A sym \in BtSymbols :
          /\ BtTradeSeqOf(sym) = bt_solo[sym].trades
          /\ DOMAIN bt_solo[sym].last_exit = DOMAIN last_exit \cap {sym}
          /\ sym \in DOMAIN last_exit => last_exit[sym] = bt_solo[sym].last_exit[sym]
    /\ MoreRows =>
       \A r \in BtRows :
          r.symbol \in BtSymbols =>
             LET own == bt_solo[r.symbol]
                 alone == RowStep(r, bt_cfg, own.last_exit, own.trade_returns, own.trades)
                 res == RowResult(r)
             IN /\ res.outcome = alone.outcome
                /\ res.outcome = "trade" => Last(res.trades) = Last(alone.trades)
                /\ \A sym \in DOMAIN last_exit \ {r.symbol} :
                      res.last_exit[sym] = last_exit[sym]

\* A trade of one symbol was recorded at an entry time below the watermark
\* another symbol holds from an earlier trade.
C21_Witness ==
    /\ bt_outcome = "trade"
    /\ Len(trades) = 2
    /\ trades[1].symbol # trades[2].symbol
    /\ trades[2].entryTime < last_exit[trades[1].symbol]

\* C27: the watermark of a symbol strictly increases each time a trade of
\* the symbol is recorded, whatever the order of the rows, so the trades of a
\* symbol have strictly increasing entry times and strictly increasing exit
\* times, and each trade exits after it enters.
C27_WatermarkIncreases ==
    /\ \A sym \in BtSymbols :
          LET own == BtTradeSeqOf(sym) IN
          /\ \A i \in 1..Len(own) : own[i].entryTime < own[i].exitTime
          /\ \A i \in 1..Len(own), j \in 1..Len(own) :
                i < j => /\ own[i].entryTime < own[j].entryTime
                         /\ own[i].exitTime < own[j].exitTime
          /\ own # <<>> => /\ sym \in DOMAIN last_exit
                           /\ last_exit[sym] = Last(own).exitTime
    /\ MoreRows =>
       \A r \in BtRows :
          LET res == RowResult(r) IN
          (res.outcome = "trade" /\ r.symbol \in DOMAIN last_exit)
             => res.last_exit[r.symbol] > last_exit[r.symbol]

\* Two trades of one symbol were recorded, the second entering exactly when
\* the first exits.
C27_Witness ==
    /\ Len(trades) = 2
    /\ trades[1].symbol = trades[2].symbol
    /\ trades[2].entryTime = trades[1].exitTime
    /\ last_exit[trades[2].symbol] = trades[2].exitTime

(***************************************************************************)
(*               Properties of the horizon return labeler                  *)
(***************************************************************************)

LbLabels == {lb_out[i] : i \in 1..Len(lb_out)}

\* the observations of a symbol, as the data directory holds them
LbObsOf(sym) == {i \in 1..Len(lb_input) : lb_input[i].symbol = sym}

\* the symbol's file has been labeled
LbLabeled(sym) ==
    /\ lb_pc \in {"label", "done"}
    /\ sym \in DOMAIN lb_tmp
    /\ \A k \in 1..Len(lb_todo) : lb_todo[k] # sym

\* the time of the symbol's observation nearest to, and not before, x
LbHasTarget(sym, x) == \E i \in LbObsOf(sym) : lb_input[i].time >= x

LbNearestTime(sym, x) ==
    CHOOSE t \in {lb_input[i].time : i \in LbObsOf(sym)} :
        /\ t >= x
        /\ \A i \in LbObsOf(sym) : lb_input[i].time >= x => t <= lb_input[i].time

LbConfiguredHorizons == {h * 60000 : h \in lb_cfg.horizons_min}

\* C4: every emitted label has 0 <= lagMs <= floor(horizonMs * lagTolerance)
\* with lagMs = actualTargetTime - (entryTime + horizonMs); an observation and
\* horizon whose nearest target lags by more get no label.
C4_LagWithinTolerance ==
    /\ \A l \in LbLabels :
          LET lag == l.actualTargetTime - (l.entryTime + l.horizonMs)
          IN /\ l.lagMs = lag
             /\ 0 <= lag
             /\ lag <= (l.horizonMs * lb_cfg.max_lag_arg) \div 100
    /\ \A sym \in LbSymbols : LbLabeled(sym) =>
          \A i \in LbObsOf(sym) : \A h \in LbConfiguredHorizons :
             LET x == lb_input[i].time + h
             IN (/\ LbHasTarget(sym, x)
                 /\ LbNearestTime(sym, x) - x > (h * lb_cfg.max_lag_arg) \div 100)
                => ~ \E l \in LbLabels : /\ l.symbol = sym
                                         /\ l.entryTime = lb_input[i].time
                                         /\ l.horizonMs = h

\* A label was written whose lag is positive and exactly the largest allowed.
C4_Witness ==
    /\ lb_pc = "done"
    /\ \E l \in LbLabels : l.lagMs > 0 /\ l.lagMs = (l.horizonMs * lb_cfg.max_lag_arg) \div 100

\* C5: the target of every emitted label is the earliest observation of the
\* same symbol at or after entryTime + horizonMs.
C5_TargetIsEarliest ==
    \A l \in LbLabels :
        /\ l.targetTime = l.entryTime + l.horizonMs
        /\ l.actualTargetTime >= l.entryTime + l.horizonMs
        /\ \E i \in LbObsOf(l.symbol) : lb_input[i].time = l.actualTargetTime
        /\ \A i \in LbObsOf(l.symbol) :
              ~(/\ lb_input[i].time >= l.entryTime + l.horizonMs
                /\ lb_input[i].time < l.actualTargetTime)

\* A label was written for a symbol that has a later observation than the
\* target, from records that did not arrive in time order.
C5_Witness ==
    /\ \E l \in LbLabels :
          /\ l.horizonMs > 0
          /\ \E i \in LbObsOf(l.symbol) : lb_input[i].time > l.actualTargetTime
    /\ \E i, j \in 1..Len(lb_input) : i < j /\ lb_input[i].time > lb_input[j].time

\* the price of the first-arrived observation of the symbol at time t
LbFirstPriceAt(sym, t) ==
    LET at == {i \in LbObsOf(sym) : lb_input[i].time = t}
        first == CHOOSE i \in at : \A k \in at : i <= k
    IN lb_input[first].price

\* C6: every emitted label has entryPrice > 0 and targetPrice > 0, these being
\* the prices of its entry and target observations, so a pair with a
\* non-positive entry or target price gets no label.
C6_PositivePrices ==
    \A l \in LbLabels :
        /\ l.entryPrice > 0
        /\ l.targetPrice > 0
        /\ \E i \in LbObsOf(l.symbol) :
              lb_input[i].time = l.entryTime /\ lb_input[i].price = l.entryPrice
        /\ l.targetPrice = LbFirstPriceAt(l.symbol, l.actualTargetTime)

\* The run ended; an observation with a non-positive price had a target with a
\* positive price exactly one minute later, and got no one-minute label.
C6_Witness ==
    /\ lb_pc = "done"
    /\ 1 \in lb_cfg.horizons_min
    /\ \E i, j \in 1..Len(lb_input) :
          /\ lb_input[i].symbol = lb_input[j].symbol
          /\ lb_input[i].price <= 0
          /\ lb_input[j].price > 0
          /\ lb_input[j].time = lb_input[i].time + 60000
          /\ ~ \E l \in LbLabels : /\ l.symbol = lb_input[i].symbol
                                   /\ l.entryTime = lb_input[i].time
                                   /\ l.horizonMs = 60000

\* C7: over a whole run at most one label is written per
\* (symbol, entryTime, horizonMs), also when a symbol has several
\* observations with one timestamp.
C7_OneLabelPerTriple ==
    \A i, j \in 1..Len(lb_out) :
        (/\ lb_out[i].symbol = lb_out[j].symbol
         /\ lb_out[i].entryTime = lb_out[j].entryTime
         /\ lb_out[i].horizonMs = lb_out[j].horizonMs)
            => i = j

(***************************************************************************)
(*               Properties of the triple-barrier labeler                  *)
(***************************************************************************)

BrPayloads == {br_out[i] : i \in 1..Len(br_out)}

\* the raw events of a symbol, as the events directory holds them
BrTicksOf(sym) == {i \in 1..Len(br_events) : br_events[i].symbol = sym}

\* tick order: by time, equal times in arrival order
BrBefore(i, j) ==
    \/ br_events[i].time < br_events[j].time
    \/ br_events[i].time = br_events[j].time /\ i < j

BrInWindow(p, i) ==
    /\ p.entryTime <= br_events[i].time
    /\ br_events[i].time <= p.entryTime + p.horizonMs

\* tick i reaches the take-profit / stop-loss price of payload p on a side
BrTp(p, side, i) ==
    IF side = "long"
    THEN br_events[i].price * 10000 >= p.entryPrice * (10000 + p.tpBps)
    ELSE br_events[i].price * 10000 <= p.entryPrice * (10000 - p.tpBps)

BrSl(p, side, i) ==
    IF side = "long"
    THEN br_events[i].price * 10000 <= p.entryPrice * (10000 - p.slBps)
    ELSE br_events[i].price * 10000 >= p.entryPrice * (10000 + p.slBps)

BrCrossing(p, side) ==
    {i \in BrTicksOf(p.symbol) : BrInWindow(p, i) /\ (BrTp(p, side, i) \/ BrSl(p, side, i))}

BrFirst(S) == CHOOSE i \in S : \A j \in S \ {i} : BrBefore(i, j)

BrSides(p) ==
    (IF p.long # None THEN {"long"} ELSE {}) \cup (IF p.short # None THEN {"short"} ELSE {})

BrResult(p, side) == IF side = "long" THEN p.long[1] ELSE p.short[1]

\* C8: chronological priority.  When some tick of the scan window crosses a
\* threshold, the label is that of the first such tick in tick order, TP or
\* SL for a threshold that tick crosses, and exitTime and exitPrice are that
\* tick's, whatever later ticks cross; for the long and the short classifier.
C8_FirstCrossingWins ==
    \A p \in BrPayloads : \A side \in BrSides(p) :
        BrCrossing(p, side) # {} =>
            LET f == BrFirst(BrCrossing(p, side))
                res == BrResult(p, side)
            IN /\ res.exitTime = br_events[f].time
               /\ res.exitPrice = br_events[f].price
               /\ \/ res.label = "TP" /\ BrTp(p, side, f)
                  \/ res.label = "SL" /\ BrSl(p, side, f)

\* A long SL label was decided by the first crossing tick of the window while
\* a later tick of the window crosses the take-profit threshold only.
C8_Witness ==
    \E p \in BrPayloads :
        /\ p.long # None
        /\ p.long[1].label = "SL"
        /\ BrCrossing(p, "long") # {}
        /\ LET f == BrFirst(BrCrossing(p, "long"))
           IN \E j \in BrCrossing(p, "long") :
                 /\ BrBefore(f, j)
                 /\ BrTp(p, "long", j)
                 /\ ~BrSl(p, "long", j)

\* C9: when the first crossing tick of the window satisfies both the
\* take-profit and the stop-loss condition, the label is TP, for the long and
\* the short classifier.
C9_TieIsTakeProfit ==
    \A p \in BrPayloads : \A side \in BrSides(p) :
        BrCrossing(p, side) # {} =>
            LET f == BrFirst(BrCrossing(p, side))
            IN (BrTp(p, side, f) /\ BrSl(p, side, f)) => BrResult(p, side).label = "TP"

\* Both classifiers met a first crossing tick that satisfies both conditions.
C9_Witness ==
    \E p \in BrPayloads :
        /\ BrSides(p) = {"long", "short"}
        /\ \A side \in BrSides(p) :
              /\ BrCrossing(p, side) # {}
              /\ LET f == BrFirst(BrCrossing(p, side))
                 IN BrTp(p, side, f) /\ BrSl(p, side, f)
              /\ BrResult(p, side).label = "TP"

\* C10: the label is TIME iff no tick with
\* entryTime <= time <= entryTime + horizonMs crosses the TP or the SL
\* threshold, and then exitTime = entryTime + horizonMs and
\* exitPrice = entryPrice.
C10_TimeOut ==
    \A p \in BrPayloads : \A side \in BrSides(p) :
        LET res == BrResult(p, side)
        IN /\ res.label = "TIME" <=> BrCrossing(p, side) = {}
           /\ res.label = "TIME" => /\ res.exitTime = p.entryTime + p.horizonMs
                                    /\ res.exitPrice = p.entryPrice

\* A long TIME label although a tick with another price than the entry price
\* lies in the window and a crossing tick lies outside it.
C10_Witness ==
    \E p \in BrPayloads :
        /\ p.long # None
        /\ p.long[1].label = "TIME"
        /\ \E i \in BrTicksOf(p.symbol) :
              BrInWindow(p, i) /\ br_events[i].price # p.entryPrice
        /\ \E i \in BrTicksOf(p.symbol) :
              ~BrInWindow(p, i) /\ (BrTp(p, "long", i) \/ BrSl(p, "long", i))

\* the snapshot records of a symbol, as the snapshots directory holds them
BrSnapsOf(sym) == {i \in 1..Len(br_snaps) : br_snaps[i].symbol = sym}

\* the symbol's snapshot file has been visited by the labeling loop
BrVisited(sym) ==
    /\ br_pc \in {"label", "done"}
    /\ BrSnapsOf(sym) # {}
    /\ \A k \in 1..Len(br_todo) : br_todo[k] # sym

BrPayloadsOf(sym) == {i \in 1..Len(br_out) : br_out[i].symbol = sym}

\* C12: a symbol that has snapshots but no tick data gets no labels and is
\* counted once in missing_events; it is no error: with a positive horizon,
\* some snapshot and some event on disk the run neither aborts nor raises,
\* and every visited symbol that has ticks has one label per snapshot.
C12_MissingEvents ==
    /\ \A sym \in BrSymbols :
          (BrSnapsOf(sym) # {} /\ BrTicksOf(sym) = {}) => BrPayloadsOf(sym) = {}
    /\ br_pc \in {"label", "done"} =>
          br_missing = Cardinality({sym \in BrSymbols : BrVisited(sym) /\ BrTicksOf(sym) = {}})
    /\ (br_pc # "start" /\ br_cfg.horizon_sec > 0 /\ br_snaps # <<>> /\ br_events # <<>>)
          => br_pc \in {"label", "done"}
    /\ \A sym \in BrSymbols :
          (BrVisited(sym) /\ BrTicksOf(sym) # {})
             => Cardinality(BrPayloadsOf(sym)) = Cardinality(BrSnapsOf(sym))

\* the ticks of payload p's symbol that lie in its scan window, in file order
BrWindowRows(p) ==
    SelectSeq(br_evt_tmp[p.symbol],
              LAMBDA row : p.entryTime <= row.time /\ row.time <= p.entryTime + p.horizonMs)

\* the classification of payload p's snapshot on a tick list
BrClassify(p, side, rows) ==
    IF side = "long"
    THEN classify_path(rows, p.entryTime, p.horizonMs, p.entryPrice, p.tpBps, p.slBps)
    ELSE classify_path_short(rows, p.entryTime, p.horizonMs, p.entryPrice, p.tpBps, p.slBps)

\* C22: barrier scan window.  Every label has
\* entryTime <= exitTime <= entryTime + horizonMs; the exit time and price of
\* a TP or SL label are those of a tick of the symbol inside the window; and
\* the label is the one the ticks of the window alone give, so ticks before
\* entryTime or after entryTime + horizonMs have no influence.
C22_ScanWindow ==
    \A p \in BrPayloads : \A side \in BrSides(p) :
        LET res == BrResult(p, side) IN
        /\ p.entryTime <= res.exitTime
        /\ res.exitTime <= p.entryTime + p.horizonMs
        /\ res.label \in {"TP", "SL"} =>
              \E i \in BrTicksOf(p.symbol) :
                 /\ BrInWindow(p, i)
                 /\ br_events[i].time = res.exitTime
                 /\ br_events[i].price = res.exitPrice
        /\ res = BrClassify(p, side, SortByTime(BrWindowRows(p)))

\* A long SL label was decided by a tick of the window although a tick before
\* entryTime crosses the take-profit threshold only.
C22_Witness ==
    \E p \in BrPayloads :
        /\ p.long # None
        /\ p.long[1].label = "SL"
        /\ p.long[1].exitTime >= p.entryTime
        /\ \E i \in BrTicksOf(p.symbol) :
              /\ br_events[i].time < p.entryTime
              /\ BrTp(p, "long", i)
              /\ ~BrSl(p, "long", i)

\* C25: take-profit and stop-loss bps are validated as strictly positive: no
\* label is written with tpBps <= 0 or slBps <= 0, and a run given such a
\* value ends before the labeling loop.
C25_BpsValidated ==
    /\ \A p \in BrPayloads : p.tpBps > 0 /\ p.slBps > 0
    /\ (br_pc \in {"label", "done"}) => (br_cfg.tp_bps > 0 /\ br_cfg.sl_bps > 0)

(***************************************************************************)
(*            Properties of the classifiers called on their own            *)
(***************************************************************************)

C28_MirrorSymmetry ==
    (cp_args # None /\ cp_args.entry_price > 0 /\ cp_args.tp_bps = cp_args.sl_bps
        /\ cp_args.tp_bps > 0)
       => \A i, j \in 1..Len(cp_results) :
             (/\ cp_results[i].side = "long"
              /\ cp_results[j].side = "short"
              /\ cp_results[i].rows = cp_results[j].rows)
                => LET l == cp_results[i].result
                       s == cp_results[j].result
                   IN /\ l.label = "TP" <=> s.label = "SL"
                      /\ l.label = "SL" <=> s.label = "TP"
                      /\ l.label = "TIME" <=> s.label = "TIME"
                      /\ l.exitTime = s.exitTime
                      /\ l.exitPrice = s.exitPrice

\* With tpBps = slBps > 0 both classifiers were called on a list whose first
\* tick is neither barrier's and whose next tick is exactly at the upper
\* barrier: long TP and short SL at that tick.
C28_Witness ==
    /\ cp_args # None
    /\ cp_args.tp_bps = cp_args.sl_bps /\ cp_args.tp_bps > 0
    /\ Len(cp_results) = 2
    /\ cp_results[1].side = "long" /\ cp_results[2].side = "short"
    /\ cp_results[1].result.label = "TP" /\ cp_results[2].result.label = "SL"
    /\ Len(cp_rows) = 2
    /\ cp_results[1].result.exitTime = cp_rows[2].time
    /\ cp_rows[2].time > cp_rows[1].time
    /\ cp_rows[2].price * BpsScale = cp_args.entry_price * (BpsScale + cp_args.tp_bps)

(***************************************************************************)
(*                   Properties of both labelers                           *)
(***************************************************************************)

\* C13: a non-positive horizon is fatal in both labelers.  No emitted
\* ReturnLabel or BarrierLabel has horizonMs <= 0; a return labeler run whose
\* horizon set is empty or holds a non-positive horizon, and a barrier
\* labeler run with a non-positive horizon, writes no label and never gets to
\* labeling or to a normal end.
C13_NonPositiveHorizonFatal ==
    /\ \A l \in LbLabels : l.horizonMs > 0
    /\ \A p \in BrPayloads : p.horizonMs > 0
    /\ (program = "labeler"
        /\ (lb_cfg.horizons_min = {} \/ \E h \in lb_cfg.horizons_min : h <= 0))
          => lb_pc \notin {"label", "done"} /\ lb_out = <<>>
    /\ (program = "barrier" /\ br_cfg.horizon_sec <= 0)
          => br_pc \notin {"label", "done"} /\ br_out = <<>>

\* the rows the temp file of a symbol holds
LbIngested(sym) == IF sym \in DOMAIN lb_tmp THEN lb_tmp[sym] ELSE <<>>

\* the well-formed snapshot records of a symbol, in reading order, as rows
LbWellFormed(sym) ==
    LET good == SelectSeq(lb_input, LAMBDA o : o.kind = "snapshot" /\ o.symbol = sym)
    IN [i \in 1..Len(good) |->
          [time |-> good[i].time, price |-> good[i].price, bid |-> good[i].bid,
           ask |-> good[i].ask, funding |-> good[i].funding]]

\* C14: a malformed input line (one that does not parse, parses to a
\* non-record value, or carries a non-integer time or a non-numeric price) is
\* skipped on its own: once the input has been streamed the run has not
\* ended in an error, the malformed lines contributed no observation, and
\* every well-formed record before and after them has been ingested.
C14_MalformedSkipped ==
    (program = "labeler" /\ lb_pc # "start") =>
        /\ lb_pc # "crash"
        /\ \A sym \in LbSymbols : LbIngested(sym) = LbWellFormed(sym)

\* the rows of a list that carry time t, in list order
RowsAtTime(rows, t) == SelectSeq(rows, LAMBDA row : row.time = t)

\* `loaded` holds the rows of `file` in non-decreasing time order, rows of
\* equal time in the order of the file
StablySorted(file, loaded) ==
    /\ Len(loaded) = Len(file)
    /\ \A i, j \in 1..Len(loaded) : i < j => loaded[i].time <= loaded[j].time
    /\ \A t \in {file[i].time : i \in 1..Len(file)} :
          RowsAtTime(loaded, t) = RowsAtTime(file, t)

\* C23: after loading, the rows of every symbol are in non-decreasing time
\* order whatever the order of arrival in the files, and rows with equal
\* times keep their arrival order; for the observations of the return labeler
\* and for the snapshots and ticks of the barrier labeler.
C23_LoadedSorted ==
    /\ \A sym \in DOMAIN lb_tmp : StablySorted(lb_tmp[sym], load_symbol_rows(lb_tmp[sym]))
    /\ \A sym \in DOMAIN br_evt_tmp :
          StablySorted(br_evt_tmp[sym], br_load_symbol_rows(br_evt_tmp, sym))
    /\ \A sym \in DOMAIN br_snap_tmp :
          StablySorted(br_snap_tmp[sym], br_load_symbol_rows(br_snap_tmp, sym))

\* The labeling loop has loaded the file of a symbol whose rows arrived out
\* of time order, two of them with the same time and different prices.
C23_Witness ==
    /\ lb_pc = "done"
    /\ \E sym \in DOMAIN lb_tmp :
          LET file == lb_tmp[sym] IN
          /\ \E i, j \in 1..Len(file) : i < j /\ file[i].time > file[j].time
          /\ \E i, j \in 1..Len(file) :
                i < j /\ file[i].time = file[j].time /\ file[i].price # file[j].price

(***************************************************************************)
(*                   Properties of summarize_returns                       *)
(***************************************************************************)

RECURSIVE DdEquity(_)
\* E[i], the sum of the first i returns
DdEquity(i) == IF i = 0 THEN 0 ELSE DdEquity(i - 1) + dd_returns[i]

\* E[i] - max(E[1..i])
DdDrawdownAt(i) ==
    LET peak == CHOOSE k \in 1..i : \A m \in 1..i : DdEquity(m) <= DdEquity(k)
    IN DdEquity(i) - DdEquity(peak)

\* C17: for any return sequence r[1..n], maxDrawdownPct is the minimum over i
\* of E[i] - max(E[1..i]) with E[i] the sum of r[1..i], and 0 for the empty
\* sequence; the returns [1,-3,2] give -3.
C17_MaxDrawdown ==
    dd_summary # None =>
        LET dd == dd_summary[1].maxDrawdownPct
            n == Len(dd_returns)
        IN /\ n = 0 => dd = 0
           /\ n > 0 => /\ \E i \in 1..n : dd = DdDrawdownAt(i)
                       /\ \A i \in 1..n : dd <= DdDrawdownAt(i)
           /\ dd_returns = <<1, -3, 2>> => dd = -3

\* The returns [1,-3,2] were summarized with a maximum drawdown of -3.
C17_Witness ==
    /\ dd_returns = <<1, -3, 2>>
    /\ dd_summary # None
    /\ dd_summary[1].maxDrawdownPct = -3

(***************************************************************************)
(*                Properties of compute_context_features                   *)
(***************************************************************************)

\* the feature names of a symbol in the dict returned
CxKeysOf(sym) == {k \in DOMAIN cx_features[1] : k[1] = sym}

\* the observations of a symbol at or before the entry time
CxSeen(sym) == {i \in 1..Len(cx_index[sym]) : cx_index[sym][i].time <= cx_args.entry_time}

\* the time of the latest of them
CxLatestTime(sym) ==
    CHOOSE t \in {cx_index[sym][i].time : i \in CxSeen(sym)} :
        \A i \in CxSeen(sym) : cx_index[sym][i].time <= t

\* C18: when the latest observation of an auxiliary symbol at or before
\* entryTime is older than the max-staleness bound, the only feature emitted
\* for that symbol is its age; no price, trend or volatility feature of the
\* symbol is in the output.
C18_StaleOnlyAge ==
    cx_features # None =>
        \A sym \in DOMAIN cx_index :
            (/\ CxSeen(sym) # {}
             /\ cx_args.entry_time - CxLatestTime(sym) > cx_args.max_context_lag_ms)
                => /\ CxKeysOf(sym) = {<<sym, "ageMs", 0>>}
                   /\ cx_features[1][<<sym, "ageMs", 0>>]
                         = cx_args.entry_time - CxLatestTime(sym)

\* ETHUSDT is stale with a positive last price and has its age alone, while
\* BTCUSDT is fresh and has a price feature.
C18_Witness ==
    /\ cx_features # None
    /\ "ETHUSDT" \in DOMAIN cx_index
    /\ cx_args.entry_time - CxLatestTime("ETHUSDT") > cx_args.max_context_lag_ms
    /\ cx_index["ETHUSDT"][1].price > 0
    /\ CxKeysOf("ETHUSDT") = {<<"ETHUSDT", "ageMs", 0>>}
    /\ <<"BTCUSDT", "price", 0>> \in DOMAIN cx_features[1]

\* the position of the latest observation at or before the entry time (the
\* last one in list order among those of the latest time)
CxEnd(sym) == CHOOSE i \in CxSeen(sym) : \A j \in CxSeen(sym) : j <= i

\* the symbol has an observation at or before the entry time that is not
\* older than the staleness bound
CxFresh(sym) ==
    /\ CxSeen(sym) # {}
    /\ cx_args.entry_time - CxLatestTime(sym) <= cx_args.max_context_lag_ms

\* window w's own slice: the observations from the first one at or after
\* entryTime - w up to the end observation
CxSlice(sym, w) == {i \in CxSeen(sym) : cx_index[sym][i].time >= cx_args.entry_time - w}

CxSliceStart(sym, w) == CHOOSE i \in CxSlice(sym, w) : \A j \in CxSlice(sym, w) : i <= j

CxTrendExpected(sym, w) ==
    /\ CxSlice(sym, w) # {}
    /\ cx_index[sym][CxSliceStart(sym, w)].price > 0
    /\ cx_index[sym][CxEnd(sym)].price > 0

\* the returns of the slice: consecutive observations with both prices positive
CxSliceReturns(sym, w) ==
    {i \in CxSlice(sym, w) : /\ i + 1 \in CxSlice(sym, w)
                             /\ cx_index[sym][i].price > 0
                             /\ cx_index[sym][i + 1].price > 0}

CxVolExpected(sym, w) ==
    /\ CxTrendExpected(sym, w)
    /\ Cardinality(CxSlice(sym, w)) >= 4
    /\ Cardinality(CxSliceReturns(sym, w)) >= 3

CxWindowsOf == {cx_args.context_windows_ms[k] : k \in 1..Len(cx_args.context_windows_ms)}

\* C24: for a fresh auxiliary symbol, window w's trend is in the output iff
\* w's slice has a start and the start and end prices are positive, and w's
\* volatility iff in addition the slice has at least 4 points and at least 3
\* returns; otherwise the key is absent.  Each window is decided by its own
\* slice, whatever the other windows did.
C24_WindowsIndependent ==
    cx_features # None =>
        \A sym \in DOMAIN cx_index :
            CxFresh(sym) =>
                \A w \in CxWindowsOf :
                    /\ <<sym, "trend", CxLabel(w)>> \in DOMAIN cx_features[1]
                          <=> CxTrendExpected(sym, w)
                    /\ <<sym, "vol", CxLabel(w)>> \in DOMAIN cx_features[1]
                          <=> CxVolExpected(sym, w)

\* BTCUSDT is fresh, its 1-minute window has no start and no key, and its
\* 2-minute window has a trend.
C24_Witness ==
    /\ cx_features # None
    /\ "BTCUSDT" \in DOMAIN cx_index
    /\ CxFresh("BTCUSDT")
    /\ CxSlice("BTCUSDT", MsPerMin) = {}
    /\ <<"BTCUSDT", "trend", 1>> \notin DOMAIN cx_features[1]
    /\ <<"BTCUSDT", "vol", 1>> \notin DOMAIN cx_features[1]
    /\ <<"BTCUSDT", "trend", 2>> \in DOMAIN cx_features[1]

\* the index without the observations after the entry time; a symbol left
\* without observations is not in it
CxUpToEntry ==
    LET seen(sym) == SelectSeq(cx_index[sym], LAMBDA o : o.time <= cx_args.entry_time)
    IN [sym \in {x \in DOMAIN cx_index : seen(x) # <<>>} |-> seen(sym)]

\* C26: no lookahead.  The feature map is the one computed from the
\* observations with time <= entryTime alone, so two indexes that agree on
\* those observations and differ in later ones give identical maps.
C26_NoLookahead ==
    cx_features # None =>
        cx_features[1] = compute_context_features(CxUpToEntry, cx_args.entry_time,
                                                  cx_args.context_windows_ms,
                                                  cx_args.max_context_lag_ms)

\* Features were computed for an index that holds an observation after the
\* entry time whose price differs from the price feature emitted.
C26_Witness ==
    /\ cx_features # None
    /\ "BTCUSDT" \in DOMAIN cx_index
    /\ <<"BTCUSDT", "trend", 2>> \in DOMAIN cx_features[1]
    /\ \E i \in 1..Len(cx_index["BTCUSDT"]) :
          /\ cx_index["BTCUSDT"][i].time > cx_args.entry_time
          /\ cx_index["BTCUSDT"][i].price > 0
          /\ cx_index["BTCUSDT"][i].price # cx_features[1][<<"BTCUSDT", "price", 0>>]

(***************************************************************************)
(*        Properties of the return labeler on raw lines with BBO           *)
(***************************************************************************)

\* the well-formed snapshot records, as positions in the data directory
LbRecs == {i \in 1..Len(lb_input) : lb_input[i].kind = "snapshot"}

\* The target of record i at horizon h: the record of the same symbol with
\* the least time at or after time + h, the first read among those with that
\* time; 0 when there is none.
LbTargetOf(i, h) ==
    LET cands == {k \in LbRecs : /\ lb_input[k].symbol = lb_input[i].symbol
                                 /\ lb_input[k].time >= lb_input[i].time + h}
    IN IF cands = {} THEN 0
       ELSE CHOOSE k \in cands :
               \A m \in cands : \/ lb_input[k].time < lb_input[m].time
                                \/ lb_input[k].time = lb_input[m].time /\ k <= m

\* the pair has a target within the lag tolerance and positive prices
LbQualifies(i, h) ==
    LET k == LbTargetOf(i, h)
    IN /\ k # 0
       /\ lb_input[k].time - (lb_input[i].time + h) <= (h * lb_cfg.max_lag_arg) \div 100
       /\ lb_input[i].price > 0
       /\ lb_input[k].price > 0

\* entry bid, entry ask, target bid and target ask are all there
LbBboComplete(i, h) ==
    LET k == LbTargetOf(i, h)
    IN /\ lb_input[i].bid # None
       /\ lb_input[i].ask # None
       /\ lb_input[k].bid # None
       /\ lb_input[k].ask # None

LbPairs == LbRecs \X {hm * 60000 : hm \in lb_cfg.horizons_min}

\* label l is the label of record i at horizon h
LbIsLabelOf(l, i, h) ==
    /\ l.symbol = lb_input[i].symbol
    /\ l.entryTime = lb_input[i].time
    /\ l.horizonMs = h
    /\ l.entryPrice = lb_input[i].price
    /\ l.fundingRate = lb_input[i].funding
    /\ l.entryBid = (IF lb_input[i].bid # None THEN lb_input[i].bid[1] ELSE lb_input[i].price)
    /\ l.entryAsk = (IF lb_input[i].ask # None THEN lb_input[i].ask[1] ELSE lb_input[i].price)

\* C19: with requireBBO the labeler emits no label for an (observation,
\* horizon) pair when the entry bid, the entry ask, the target bid or the
\* target ask is missing; without requireBBO the same pair is still labeled.
\* After a normal end the labels are those of the pairs that have a target
\* within tolerance and positive prices and, with requireBBO, all four quotes.
C19_RequireBbo ==
    (program = "labeler" /\ lb_pc = "done") =>
        LET wanted == {q \in LbPairs :
                          /\ LbQualifies(q[1], q[2])
                          /\ lb_cfg.require_bbo => LbBboComplete(q[1], q[2])}
        IN /\ Len(lb_out) = Cardinality(wanted)
           /\ \A q \in wanted : \E l \in LbLabels : LbIsLabelOf(l, q[1], q[2])
           /\ \A l \in LbLabels : \E q \in wanted : LbIsLabelOf(l, q[1], q[2])

\* A run with requireBBO ended normally: a pair that lacks only a target
\* quote got no label, and no label was written at all.
C19_Witness ==
    /\ program = "labeler"
    /\ lb_pc = "done"
    /\ lb_cfg.require_bbo
    /\ lb_out = <<>>
    /\ \E q \in LbPairs :
          /\ LbQualifies(q[1], q[2])
          /\ lb_input[q[1]].bid # None
          /\ lb_input[q[1]].ask # None
          /\ ~LbBboComplete(q[1], q[2])

\* the execution returns of a label, from the quotes it was computed on:
\* buy at the ask and sell at the bid for a long, the reverse for a short,
\* each price worse by the cost per side
LbExecLong(l) ==
    LET entry == l.entryAsk * (10000 + l.costBpsPerSide)
        exit == l.targetBid * (10000 - l.costBpsPerSide)
    IN ((exit - entry) * 100) \div entry

LbExecShort(l) ==
    LET entry == l.entryBid * (10000 - l.costBpsPerSide)
        exit == l.targetAsk * (10000 + l.costBpsPerSide)
    IN ((entry - exit) * 100) \div entry

\* C20: funding adjustment.  When funding is disabled or the observation's
\* funding rate is unknown, fundingAdjPct is 0 and the long and short returns
\* are the execution returns; otherwise fundingAdjPct is the rate prorated
\* over horizon / 8 h, the long return is the execution long return minus it
\* and the short return the execution short return plus it; in both cases
\* longReturnPct + shortReturnPct is what it is without the adjustment.
C20_FundingAdjustment ==
    \A l \in LbLabels :
        /\ (lb_cfg.disable_funding \/ l.fundingRate = None)
              => /\ l.fundingAdjPct = 0
                 /\ l.longReturnPct = LbExecLong(l)
                 /\ l.shortReturnPct = LbExecShort(l)
        /\ (~lb_cfg.disable_funding /\ l.fundingRate # None)
              => /\ l.fundingAdjPct * (8 * 60 * 60 * 1000) = l.fundingRate[1] * l.horizonMs
                 /\ l.longReturnPct = LbExecLong(l) - l.fundingAdjPct
                 /\ l.shortReturnPct = LbExecShort(l) + l.fundingAdjPct
        /\ l.longReturnPct + l.shortReturnPct = LbExecLong(l) + LbExecShort(l)

\* A label was written with funding enabled for an observation with a known
\* funding rate and a non-zero adjustment, and with quotes other than the price.
C20_Witness ==
    /\ program = "labeler"
    /\ ~lb_cfg.disable_funding
    /\ \E l \in LbLabels :
          /\ l.fundingRate # None
          /\ l.fundingAdjPct # 0
          /\ l.entryAsk # l.entryPrice
          /\ l.longReturnPct # LbExecLong(l)

\* C29: every label is measured against a strictly later observation: for
\* every horizon configuration the command line accepts, each label has
\* horizonMs > 0 and actualTargetTime > entryTime.
C29_TargetStrictlyLater ==
    \A l \in LbLabels : l.horizonMs > 0 /\ l.actualTargetTime > l.entryTime

\* C30: with requireBBO every label carries the book prices of its own
\* observations: entryBid and entryAsk are the bid and ask of the entry
\* observation, targetBid and targetAsk those of the target observation, and
\* none of them is the fallback price.
C30_OwnBookPrices ==
    (program = "labeler" /\ lb_cfg # None /\ lb_cfg.require_bbo) =>
        \A l \in LbLabels :
            \E q \in LbPairs :
                LET i == q[1]
                    k == LbTargetOf(q[1], q[2])
                IN /\ k # 0
                   /\ l.symbol = lb_input[i].symbol
                   /\ l.entryTime = lb_input[i].time
                   /\ l.horizonMs = q[2]
                   /\ l.actualTargetTime = lb_input[k].time
                   /\ LbBboComplete(q[1], q[2])
                   /\ l.entryBid = lb_input[i].bid[1]
                   /\ l.entryAsk = lb_input[i].ask[1]
                   /\ l.targetBid = lb_input[k].bid[1]
                   /\ l.targetAsk = lb_input[k].ask[1]

====
